---- MODULE Spec2Model ----
(***************************************************************************)
(* Collaboration server of the diagramming application (Protected Local    *)
(* mode): the per-connection session table, the message dispatcher, the    *)
(* document store, the permission evaluator and the broadcast router of    *)
(* src-tauri/src/server, with the host's direct document commands of       *)
(* src-tauri/src/lib.rs.                                                   *)
(***************************************************************************)
EXTENDS Integers, Sequences, FiniteSets, TLC

(***************************************************************************)
(* Bounds of the model.                                                    *)
(***************************************************************************)
\* Connections accepted over the life of the server (ids 1..MaxClients).
MaxClients == 2
\* Frames and host commands handled over the life of the server.
MaxFrames == 3
\* Capacity of the broadcast channel; the server builds it with 100 slots
\* (ServerState::new), the model keeps the same discipline on fewer slots.
BroadcastCapacity == 2
\* Capacity of a session's outbound queue; the server builds it with 100
\* slots (handle_socket), the model keeps the same discipline on fewer slots.
OutboundCapacity == 2
\* Threads that call the document store at the same time (the tasks of two
\* connections, or of one connection and a host command).
MaxThreads == 2
\* Calls of the document store made by those threads.
MaxCalls == 3
\* The last reading of the clock, in ticks; the first is 2.
MaxNow == 3
\* Times a new DocumentStore is built on the data directory after the first.
MaxRestarts == 1
\* Largest token lifetime tried beside the default, in minutes.
MaxExpiry == 2
\* Most serving tasks that outlive their shutdown signal at once.
MaxServeTasks == 2

(***************************************************************************)
(* The state: the server's session table and channels, the document store  *)
(* with its data directory, the host's user store and server manager, and  *)
(* the calls of the permission evaluator and of the two codecs.            *)
(***************************************************************************)
VARIABLES
    clients,          \* ServerState.clients: connection id -> ClientState
    next_client_id,   \* ServerState.next_client_id
    broadcast_rx,     \* per connection: the envelopes its receiver has not read
    broadcast_task,   \* per connection: where its broadcast task stands
    outbound,         \* per connection: the mpsc queue the send task drains
    dispatcher,       \* per connection: the response awaiting send_to_client
    index,            \* DocumentStore.index: doc id -> metadata
    files,            \* docs/<id>.json: doc id -> body
    index_json,       \* index.json: None before the first save_index
    last_login,       \* users whose last_login_at the user store has stamped
    frames,           \* frames and host commands handled so far
    store_task,       \* per thread: the document store call it is inside
    now,              \* SystemTime::now(), in ticks of the clock
    generation,       \* DocumentStore::new calls on the data directory so far
    deleted,          \* ids whose delete returned true with no save since
    store_calls,      \* calls of the document store made by its threads so far
    permission_call,  \* get_user_permission: its arguments and its result
    user_store,       \* UserStore: users (id -> User) and the users file
    web_socket_server,\* WebSocketServer: running, port and config
    command_result,   \* what the host's last command returned
    token_call,       \* create_token and validate_token: arguments and results
    codec_call        \* encode_message and the decoders: arguments and results

server_vars ==
    <<clients, next_client_id, broadcast_rx, broadcast_task, outbound, dispatcher,
      last_login, frames>>

disk_vars == <<index, files, index_json>>

call_vars == <<store_task, now, generation, deleted, store_calls>>

host_vars == <<user_store, web_socket_server, command_result, token_call, codec_call>>

vars ==
    <<clients, next_client_id, broadcast_rx, broadcast_task, outbound, dispatcher,
      index, files, index_json, last_login, frames, store_task, now, generation,
      deleted, store_calls, permission_call, user_store, web_socket_server,
      command_result, token_call, codec_call>>

(***************************************************************************)
(* Option<T>: None is the empty tuple, Some(x) the one-element tuple.      *)
(***************************************************************************)
None == <<>>
Some(x) == <<x>>
IsSome(o) == o # <<>>
Unwrap(o) == o[1]

(***************************************************************************)
(* protocol.rs: message type tags.                                         *)
(***************************************************************************)
MESSAGE_SYNC == 0
MESSAGE_AWARENESS == 1
MESSAGE_AUTH == 2
MESSAGE_DOC_LIST == 3
MESSAGE_DOC_GET == 4
MESSAGE_DOC_SAVE == 5
MESSAGE_DOC_DELETE == 6
MESSAGE_DOC_EVENT == 7
MESSAGE_ERROR == 8
MESSAGE_AUTH_RESPONSE == 9
MESSAGE_JOIN_DOC == 10
MESSAGE_AUTH_LOGIN == 11
MESSAGE_DOC_SHARE == 12
MESSAGE_DOC_TRANSFER == 13

(***************************************************************************)
(* permissions.rs: the permission levels and the evaluator.                *)
(***************************************************************************)
PermissionNone == 0
Viewer == 1
Editor == 2
Owner == 3

\* str::to_lowercase on the share strings of the model.
to_lowercase(s) ==
    CASE s = "View" -> "view"
      [] s = "EDIT" -> "edit"
      [] OTHER -> s

\* Permission::from_str that compares the string as it is stored.
PermissionFromStr_exact(s) ==
    CASE s = "owner" -> Owner
      [] s \in {"edit", "editor"} -> Editor
      [] s \in {"view", "viewer"} -> Viewer
      [] OTHER -> PermissionNone

\* Permission::from_str: the string is lower-cased, then matched.
PermissionFromStr(s) ==
    CASE to_lowercase(s) = "owner" -> Owner
      [] to_lowercase(s) \in {"edit", "editor"} -> Editor
      [] to_lowercase(s) \in {"view", "viewer"} -> Viewer
      [] OTHER -> PermissionNone

\* The permission of the first share entry naming user_id, None without one.
RECURSIVE SharePermission(_, _)
SharePermission(shares, user_id) ==
    IF shares = <<>> THEN PermissionNone
    ELSE IF Head(shares).userId = user_id
         THEN PermissionFromStr(Head(shares).permission)
         ELSE SharePermission(Tail(shares), user_id)

\* get_user_permission that looks at the share list before the owner.
get_user_permission_shares_first(metadata, user_id, user_role) ==
    IF /\ IsSome(metadata.shared_with)
       /\ \E i \in 1..Len(Unwrap(metadata.shared_with)) :
             Unwrap(metadata.shared_with)[i].userId = user_id
    THEN SharePermission(Unwrap(metadata.shared_with), user_id)
    ELSE IF metadata.owner_id = Some(user_id) \/ user_role = Some("admin") THEN Owner
    ELSE PermissionNone

\* get_user_permission that gives an admin Editor, not Owner.
get_user_permission_admin_editor(metadata, user_id, user_role) ==
    IF metadata.owner_id = Some(user_id) THEN Owner
    ELSE IF user_role = Some("admin") THEN Editor
    ELSE IF IsSome(metadata.shared_with)
         THEN SharePermission(Unwrap(metadata.shared_with), user_id)
         ELSE PermissionNone

\* get_user_permission(metadata, user_id, user_role).
get_user_permission(metadata, user_id, user_role) ==
    IF metadata.owner_id = Some(user_id) THEN Owner
    ELSE IF user_role = Some("admin") THEN Owner
    ELSE IF IsSome(metadata.shared_with)
         THEN SharePermission(Unwrap(metadata.shared_with), user_id)
         ELSE PermissionNone

\* Permission::can_read, can_write, can_delete, can_manage_shares.
can_read(permission) == permission >= Viewer
can_write(permission) == permission >= Editor
can_delete(permission) == permission >= Owner
can_manage_shares(permission) == permission >= Owner

\* check_permission(doc_store, doc_id, user_id, user_role, required): the
\* result is "ok" or the PermissionError it returns.
check_permission(idx, doc_id, user_id, user_role, required) ==
    IF ~IsSome(user_id) \/ user_id = Some("") THEN "NotAuthenticated"
    ELSE IF doc_id \notin DOMAIN idx THEN "DocumentNotFound"
    ELSE IF get_user_permission(idx[doc_id], Unwrap(user_id), user_role) >= required
         THEN "ok"
         ELSE "AccessDenied"

check_read_permission(idx, doc_id, user_id, user_role) ==
    check_permission(idx, doc_id, user_id, user_role, Viewer)

check_write_permission(idx, doc_id, user_id, user_role) ==
    check_permission(idx, doc_id, user_id, user_role, Editor)

check_delete_permission(idx, doc_id, user_id, user_role) ==
    check_permission(idx, doc_id, user_id, user_role, Owner)

\* to_error_string: the protocol error code of a refused check.
to_error_string(err, required) ==
    CASE err = "AccessDenied" /\ required = Owner -> "ERR_DELETE_FORBIDDEN"
      [] err = "AccessDenied" /\ required = Editor -> "ERR_EDIT_FORBIDDEN"
      [] err = "AccessDenied" /\ required = Viewer -> "ERR_VIEW_FORBIDDEN"
      [] err = "AccessDenied" -> "ERR_ACCESS_DENIED"
      [] err = "DocumentNotFound" -> "ERR_DOC_NOT_FOUND"
      [] OTHER -> "ERR_NOT_AUTHENTICATED"

(***************************************************************************)
(* The users of the credential store and the inputs clients send.          *)
(***************************************************************************)
\* auth/users.rs User records (the password stands for its stored hash).
Users ==
    { [id |-> "alice", username |-> "alice", role |-> "admin", password |-> "pw-alice"],
      [id |-> "bob", username |-> "bob", role |-> "user", password |-> "pw-bob"],
      [id |-> "carol", username |-> "carol", role |-> "user", password |-> "pw-carol"] }

UserIds == { u.id : u \in Users }

\* UserStore::get_user_by_username.
get_user_by_username(name) ==
    IF \E u \in Users : u.username = name
    THEN Some(CHOOSE u \in Users : u.username = name)
    ELSE None

\* auth/password.rs verify_password against the stored hash.
verify_password(password, user) == password = user.password

DocIds == {"d1", "d2"}

\* A DocumentShare entry, as the body and the index hold it.
Share(uid, perm) ==
    [userId |-> uid, userName |-> uid, permission |-> perm, sharedAt |-> 1]

\* A document body as a client sends it: the JSON fields save_document reads.
\* An optional field is None when the body lacks it, or holds null or a value
\* of another type; pageOrder is the length of the array.
Document(id, owner, shares) ==
    [id |-> id, name |-> "Plan", pageOrder |-> 2, modifiedAt |-> Some(1),
     createdAt |-> Some(1), isTeamDocument |-> Some(TRUE), lockedBy |-> None,
     lockedByName |-> None, lockedAt |-> None, ownerId |-> owner,
     ownerName |-> owner, sharedWith |-> shares, lastModifiedBy |-> None,
     lastModifiedByName |-> None]

Bodies ==
    { Document(Some("d1"), Some("bob"), None),
      Document(Some("d1"), Some("bob"), Some(<<Share("carol", "view")>>)),
      Document(Some("d2"), None, None),
      Document(None, None, None) }

\* The bodies the callers of the store save: with and without timestamps, with
\* a share list, with one lock field of the three, and without an id.
StoreBodies ==
    { Document(Some("d1"), Some("bob"), None),
      [Document(Some("d1"), Some("bob"), Some(<<Share("carol", "view")>>))
          EXCEPT !.createdAt = None, !.modifiedAt = None],
      [Document(Some("d2"), None, None) EXCEPT !.lockedBy = Some("bob")],
      Document(None, None, None) }

\* set_lock(doc_id, user_id, user_name): lock for bob, or clear the lock.
LockArgs ==
    { [user_id |-> Some("bob"), user_name |-> None],
      [user_id |-> None, user_name |-> None] }

\* update_document_shares(doc_id, shares): ShareEntry lists, one of them naming
\* bob, who owns d1.
ShareArgs ==
    { <<[userId |-> "carol", userName |-> "carol", permission |-> "edit"],
        [userId |-> "alice", userName |-> "alice", permission |-> "none"]>>,
      <<[userId |-> "bob", userName |-> "bob", permission |-> "view"]>> }

\* transfer_ownership(doc_id, new_owner_id, new_owner_name, previous_owner_id).
TransferArgs ==
    { [new_owner_id |-> "carol", new_owner_name |-> "carol", previous_owner_id |-> "bob"] }

(***************************************************************************)
(* auth/jwt.rs and the jsonwebtoken library: session tokens.               *)
(***************************************************************************)
\* The clock read in seconds (as_secs): a tick of the clock is a minute.
now_secs == 60 * now

\* The leeway the library's Validation allows on exp, in seconds.
Leeway == 60

DEFAULT_EXPIRY_SECS == 24 * 60 * 60

\* TokenConfig::default.
DefaultTokenConfig ==
    [secret |-> "diagrammer-jwt-secret-change-in-production",
     expiry_secs |-> DEFAULT_EXPIRY_SECS]

\* The secret the server validates with: the host hands it the secret of its
\* token configuration at setup.
jwt_secret == DefaultTokenConfig.secret

\* The configurations tokens are created and validated with.
TokenConfigs ==
    { DefaultTokenConfig, [DefaultTokenConfig EXCEPT !.secret = "different-secret"] }
    \cup { [DefaultTokenConfig EXCEPT !.expiry_secs = 60 * n] : n \in 1..MaxExpiry }

\* HMAC-SHA256 of the encoded header and claims under a secret: two signatures
\* are equal when key and message are equal.
Sign(secret, claims) == [key |-> secret, message |-> claims]

\* jsonwebtoken::encode with Header::default(): header.claims.signature.
encode(claims, secret) ==
    [wellformed |-> TRUE, alg |-> "HS256", claims |-> claims,
     signature |-> Sign(secret, claims)]

\* jsonwebtoken::decode with an HS256 Validation: the three segments are
\* split, the signature is recomputed and compared, and exp is checked
\* against the clock with the leeway.
decode(token, secret) ==
    IF ~token.wellformed
    THEN [ok |-> FALSE, err |-> "InvalidToken", claims |-> None]
    ELSE IF token.signature # Sign(secret, token.claims)
         THEN [ok |-> FALSE, err |-> "InvalidSignature", claims |-> None]
         ELSE IF token.claims.exp + Leeway < now_secs
              THEN [ok |-> FALSE, err |-> "ExpiredSignature", claims |-> None]
              ELSE [ok |-> TRUE, err |-> "", claims |-> Some(token.claims)]

\* create_token that returns exp in seconds where milliseconds are due.
create_token_secs(user_id, username, role, config) ==
    LET exp == now_secs + config.expiry_secs
        claims == [sub |-> user_id, username |-> username, role |-> role,
                   iat |-> now_secs, exp |-> exp]
    IN  [token |-> encode(claims, config.secret), expires_at_ms |-> exp]

\* create_token(user_id, username, role, config): (token, expires_at_ms).
create_token(user_id, username, role, config) ==
    LET exp == now_secs + config.expiry_secs
        claims == [sub |-> user_id, username |-> username, role |-> role,
                   iat |-> now_secs, exp |-> exp]
    IN  [token |-> encode(claims, config.secret), expires_at_ms |-> exp * 1000]

\* validate_token(token, config): Ok(claims) or Err(message).
validate_token(token, config) ==
    LET res == decode(token, config.secret)
    IN  IF res.ok THEN res
        ELSE [res EXCEPT !.err = "Token validation error"]

\* A token a client presents: the claims of a user with the given exp, signed
\* with the server's secret or with another one.
Token(user, signed, exp) ==
    encode([sub |-> user.id, username |-> user.username, role |-> user.role,
            iat |-> 0, exp |-> exp],
           IF signed THEN jwt_secret ELSE "different-secret")

\* The tokens clients present: tokens that outlive the run, one that expires
\* as the clock stands at 2, one that expired more than the leeway ago, one
\* signed with another secret, and a string that is no token.
Tokens ==
    { Token(u, TRUE, DEFAULT_EXPIRY_SECS) : u \in {x \in Users : x.id # "carol"} }
    \cup { Token(u, TRUE, 120) : u \in {x \in Users : x.id = "carol"} }
    \cup { Token(u, TRUE, 30) : u \in {x \in Users : x.id = "bob"} }
    \cup { Token(u, FALSE, DEFAULT_EXPIRY_SECS) : u \in {x \in Users : x.id = "alice"} }
    \cup { [Token(u, FALSE, 0) EXCEPT !.wellformed = FALSE] : u \in {x \in Users : x.id = "alice"} }

\* validate_jwt(token, secret): Ok(claims) or Err(message).  After the
\* library's check the function compares exp with the clock itself.
validate_jwt(token) ==
    LET res == decode(token, jwt_secret)
    IN  IF ~res.ok
        THEN [ok |-> FALSE, err |-> "JWT validation failed", kind |-> res.err, claims |-> None]
        ELSE IF Unwrap(res.claims).exp < now_secs
             THEN [ok |-> FALSE, err |-> "Token expired", kind |-> "", claims |-> None]
             ELSE [ok |-> TRUE, err |-> "", kind |-> "", claims |-> res.claims]

(***************************************************************************)
(* documents.rs: the document store.  save_document and delete_document    *)
(* are the whole call taken as one step, as the dispatcher of one session  *)
(* sees it; the steps of a call, as concurrent callers see them, follow    *)
(* with the store's threads.                                               *)
(***************************************************************************)
\* The DocumentMetadata save_document builds from a body: modified_at falls
\* back to the clock, created_at to modified_at.
MetadataOf(doc) ==
    LET modified_at == IF IsSome(doc.modifiedAt) THEN Unwrap(doc.modifiedAt) ELSE now
    IN  [id |-> Unwrap(doc.id), name |-> doc.name, page_count |-> doc.pageOrder,
         modified_at |-> modified_at,
         created_at |-> IF IsSome(doc.createdAt) THEN Unwrap(doc.createdAt) ELSE modified_at,
         is_team_document |-> doc.isTeamDocument,
         locked_by |-> doc.lockedBy, locked_by_name |-> doc.lockedByName,
         locked_at |-> doc.lockedAt, owner_id |-> doc.ownerId,
         owner_name |-> doc.ownerName, shared_with |-> doc.sharedWith,
         last_modified_by |-> doc.lastModifiedBy,
         last_modified_by_name |-> doc.lastModifiedByName]

\* The optional fields of DocumentMetadata, by their JSON names
\* (skip_serializing_if = "Option::is_none").
OptionalFields ==
    {"isTeamDocument", "lockedBy", "lockedByName", "lockedAt", "ownerId", "ownerName",
     "sharedWith", "lastModifiedBy", "lastModifiedByName"}

\* The optional field of metadata m that serialises under the JSON name k.
OptionalField(m, k) ==
    CASE k = "isTeamDocument" -> m.is_team_document
      [] k = "lockedBy" -> m.locked_by
      [] k = "lockedByName" -> m.locked_by_name
      [] k = "lockedAt" -> m.locked_at
      [] k = "ownerId" -> m.owner_id
      [] k = "ownerName" -> m.owner_name
      [] k = "sharedWith" -> m.shared_with
      [] k = "lastModifiedBy" -> m.last_modified_by
      [] k = "lastModifiedByName" -> m.last_modified_by_name

\* serde_json::to_string_pretty of one DocumentMetadata: a JSON object that
\* has the five plain fields and those optional fields that are Some.
to_json(m) ==
    [k \in {"id", "name", "pageCount", "modifiedAt", "createdAt"}
            \cup {o \in OptionalFields : IsSome(OptionalField(m, o))} |->
        CASE k = "id" -> m.id
          [] k = "name" -> m.name
          [] k = "pageCount" -> m.page_count
          [] k = "modifiedAt" -> m.modified_at
          [] k = "createdAt" -> m.created_at
          [] OTHER -> Unwrap(OptionalField(m, k))]

\* serde_json::from_str of one DocumentMetadata: an optional field the object
\* lacks is None.
from_json(j) ==
    LET opt(k) == IF k \in DOMAIN j THEN Some(j[k]) ELSE None
    IN  [id |-> j["id"], name |-> j["name"], page_count |-> j["pageCount"],
         modified_at |-> j["modifiedAt"], created_at |-> j["createdAt"],
         is_team_document |-> opt("isTeamDocument"),
         locked_by |-> opt("lockedBy"), locked_by_name |-> opt("lockedByName"),
         locked_at |-> opt("lockedAt"), owner_id |-> opt("ownerId"),
         owner_name |-> opt("ownerName"), shared_with |-> opt("sharedWith"),
         last_modified_by |-> opt("lastModifiedBy"),
         last_modified_by_name |-> opt("lastModifiedByName")]

\* save_index that writes an index without the optional fields.
save_index_plain(idx) ==
    Some([d \in DOMAIN idx |->
            [k \in {"id", "name", "pageCount", "modifiedAt", "createdAt"} |-> to_json(idx[d])[k]]])

\* DocumentStore::save_index: what it writes to index.json.
save_index(idx) == Some([d \in DOMAIN idx |-> to_json(idx[d])])

\* DocumentStore::load_index: the index a new store starts with; it stays
\* empty when index.json is missing.
load_index(json) ==
    IF IsSome(json)
    THEN [d \in DOMAIN Unwrap(json) |-> from_json(Unwrap(json)[d])]
    ELSE <<>>

\* f with key k set to v.
Put(f, k, v) == [x \in DOMAIN f \cup {k} |-> IF x = k THEN v ELSE f[x]]
\* f without key k.
Drop(f, k) == [x \in DOMAIN f \ {k} |-> f[x]]

\* DocumentStore::save_document: Err when the body has no string id.
save_document(idx, fs, doc) ==
    IF ~IsSome(doc.id)
    THEN [ok |-> FALSE, err |-> "Document missing 'id' field", index |-> idx, files |-> fs,
          index_json |-> index_json]
    ELSE [ok |-> TRUE, err |-> "",
          index |-> Put(idx, Unwrap(doc.id), MetadataOf(doc)),
          files |-> Put(fs, Unwrap(doc.id), doc),
          index_json |-> save_index(Put(idx, Unwrap(doc.id), MetadataOf(doc)))]

\* DocumentStore::delete_document: Ok(false) when the index has no entry.
delete_document(idx, fs, doc_id) ==
    IF doc_id \notin DOMAIN idx
    THEN [deleted |-> FALSE, index |-> idx, files |-> fs, index_json |-> index_json]
    ELSE [deleted |-> TRUE, index |-> Drop(idx, doc_id), files |-> Drop(fs, doc_id),
          index_json |-> save_index(Drop(idx, doc_id))]

\* DocumentStore::get_document.
get_document(idx, fs, doc_id) ==
    IF doc_id \notin DOMAIN idx
    THEN [ok |-> FALSE, err |-> "Document not found", doc |-> None]
    ELSE IF doc_id \notin DOMAIN fs
         THEN [ok |-> FALSE, err |-> "Failed to read document", doc |-> None]
         ELSE [ok |-> TRUE, err |-> "", doc |-> Some(fs[doc_id])]

\* DocumentStore::get_metadata.
get_metadata(idx, doc_id) ==
    IF doc_id \in DOMAIN idx THEN Some(idx[doc_id]) ELSE None

\* DocumentStore::list_documents.
list_documents(idx) == { idx[d] : d \in DOMAIN idx }

(***************************************************************************)
(* documents.rs: the steps of a call of the document store.  The index is  *)
(* locked for one access at a time and the body file is written outside    *)
(* that lock, so the steps of two calls interleave.                        *)
(***************************************************************************)
StoreThreads == 1..MaxThreads

\* What a thread holds of the call it is inside: where the call stands (pc),
\* its operation and document id, the body it saves with the metadata built
\* from it, the arguments of a lock, share or transfer call, and the result
\* of the thread's last call.  clean tells that no save of the same id ran
\* beside a delete; prior tells that the id was in deleted when the call
\* began.
Idle ==
    [pc |-> "idle", op |-> "", doc_id |-> "", doc |-> None, metadata |-> None,
     arg |-> None, clean |-> TRUE, prior |-> FALSE, result |-> ""]

\* The thread's call returns result.
Return(task, result) ==
    [Idle EXCEPT !.op = task.op, !.doc_id = task.doc_id, !.prior = task.prior,
                 !.result = result]

\* The threads that are inside a call that saves document doc_id.
Saving(doc_id) ==
    { t \in StoreThreads : /\ store_task[t].pc # "idle"
                           /\ store_task[t].op # "delete"
                           /\ store_task[t].doc_id = doc_id }

\* Thread t enters a call that saves doc_id: a delete of doc_id that is under
\* way no longer runs alone, and doc_id no longer counts as deleted.
BeginSave(t, task, doc_id) ==
    /\ store_task' = [u \in StoreThreads |->
           IF u = t THEN task
           ELSE IF /\ store_task[u].pc # "idle"
                   /\ store_task[u].op = "delete"
                   /\ store_task[u].doc_id = doc_id
                THEN [store_task[u] EXCEPT !.clean = FALSE]
                ELSE store_task[u]]
    /\ deleted' = deleted \ {doc_id}

\* Thread t is free and may make one more call.
Calls(t) ==
    /\ store_task[t].pc = "idle"
    /\ store_calls < MaxCalls
    /\ store_calls' = store_calls + 1
    /\ UNCHANGED <<server_vars, permission_call, host_vars, now, generation>>

\* A step of thread t inside its call.
Steps(t, pc) ==
    /\ store_task[t].pc = pc
    /\ UNCHANGED <<server_vars, permission_call, host_vars, now, generation, store_calls>>

\* save_document(doc) is called.
CallSave(t, doc) ==
    /\ BeginSave(t, [Idle EXCEPT !.pc = "write", !.op = "save", !.doc = Some(doc),
                                 !.doc_id = IF IsSome(doc.id) THEN Unwrap(doc.id) ELSE ""],
                 IF IsSome(doc.id) THEN Unwrap(doc.id) ELSE "")
    /\ UNCHANGED disk_vars

\* save_document: the id is read, the metadata is built and the body file is
\* written; Err when the body has no string id.
StoreWrite(t) ==
    /\ Steps(t, "write")
    /\ UNCHANGED <<index, index_json, deleted>>
    /\ LET task == store_task[t]
           doc == Unwrap(task.doc)
       IN  IF ~IsSome(doc.id)
           THEN /\ store_task' = [store_task EXCEPT ![t] =
                                     Return(task, "Document missing 'id' field")]
                /\ UNCHANGED files
           ELSE /\ files' = Put(files, Unwrap(doc.id), doc)
                /\ store_task' = [store_task EXCEPT ![t] =
                       [task EXCEPT !.pc = "insert", !.doc_id = Unwrap(doc.id),
                                    !.metadata = Some(MetadataOf(doc))]]

\* save_document: index.insert(id, metadata) under the write lock.
StoreInsert(t) ==
    /\ Steps(t, "insert")
    /\ UNCHANGED <<files, index_json, deleted>>
    /\ index' = Put(index, store_task[t].doc_id, Unwrap(store_task[t].metadata))
    /\ store_task' = [store_task EXCEPT ![t].pc = "save_index"]

\* save_index, which ends save_document and delete_document: the index is
\* serialised and written under its read lock, and the call returns.
StoreSaveIndex(t) ==
    /\ Steps(t, "save_index")
    /\ UNCHANGED <<index, files>>
    /\ index_json' = save_index(index)
    /\ LET task == store_task[t]
       IN  IF task.op = "delete"
           THEN /\ store_task' = [store_task EXCEPT ![t] = Return(task, "true")]
                /\ deleted' = IF task.clean THEN deleted \cup {task.doc_id} ELSE deleted
           ELSE /\ store_task' = [store_task EXCEPT ![t] = Return(task, "ok")]
                /\ UNCHANGED deleted

\* delete_document(doc_id) is called: Ok(false) when the index has no entry.
CallDelete(t, doc_id) ==
    /\ UNCHANGED <<disk_vars, deleted>>
    /\ LET task == [Idle EXCEPT !.op = "delete", !.doc_id = doc_id,
                                !.prior = doc_id \in deleted]
       IN  IF doc_id \notin DOMAIN index
           THEN store_task' = [store_task EXCEPT ![t] = Return(task, "false")]
           ELSE store_task' = [store_task EXCEPT ![t] =
                   [task EXCEPT !.pc = "remove_file", !.clean = Saving(doc_id) = {}]]

\* delete_document: the body file is removed if it exists.
StoreRemoveFile(t) ==
    /\ Steps(t, "remove_file")
    /\ UNCHANGED <<index, index_json, deleted>>
    /\ files' = Drop(files, store_task[t].doc_id)
    /\ store_task' = [store_task EXCEPT ![t].pc = "remove"]

\* delete_document that leaves the entry in the index.
StoreRemoveNothing(t) ==
    /\ Steps(t, "remove")
    /\ UNCHANGED <<index, files, index_json, deleted>>
    /\ store_task' = [store_task EXCEPT ![t].pc = "save_index"]

\* delete_document: index.remove(doc_id) under the write lock.
StoreRemove(t) ==
    /\ Steps(t, "remove")
    /\ UNCHANGED <<files, index_json, deleted>>
    /\ index' = Drop(index, store_task[t].doc_id)
    /\ store_task' = [store_task EXCEPT ![t].pc = "save_index"]

\* set_lock, update_document_shares or transfer_ownership is called; each
\* begins with get_document, whose first step looks the id up in the index.
CallUpdate(t, op, doc_id, arg) ==
    /\ UNCHANGED disk_vars
    /\ LET task == [Idle EXCEPT !.op = op, !.doc_id = doc_id, !.arg = Some(arg)]
       IN  IF doc_id \notin DOMAIN index
           THEN /\ store_task' = [store_task EXCEPT ![t] = Return(task, "Document not found")]
                /\ UNCHANGED deleted
           ELSE BeginSave(t, [task EXCEPT !.pc = "read"], doc_id)

\* set_lock: the lock fields of the body, set together or cleared together.
LockedBody(doc, arg) ==
    IF IsSome(arg.user_id)
    THEN [doc EXCEPT !.lockedBy = arg.user_id,
                     !.lockedByName = IF IsSome(arg.user_name) THEN arg.user_name
                                      ELSE Some("Unknown"),
                     !.lockedAt = Some(now)]
    ELSE [doc EXCEPT !.lockedBy = None, !.lockedByName = None, !.lockedAt = None]

\* The entries of shares whose permission is not "none", stamped with the clock.
RECURSIVE NewShares(_)
NewShares(shares) ==
    IF shares = <<>> THEN <<>>
    ELSE IF Head(shares).permission = "none"
         THEN NewShares(Tail(shares))
         ELSE <<[userId |-> Head(shares).userId, userName |-> Head(shares).userName,
                 permission |-> Head(shares).permission, sharedAt |-> now]>>
              \o NewShares(Tail(shares))

\* update_document_shares: the body with its share list replaced.
SharedBody(doc, arg) == [doc EXCEPT !.sharedWith = Some(NewShares(arg))]

\* The share entries that do not name user_id (shares.retain).
RECURSIVE Retain(_, _)
Retain(shares, user_id) ==
    IF shares = <<>> THEN <<>>
    ELSE IF Head(shares).userId = user_id
         THEN Retain(Tail(shares), user_id)
         ELSE <<Head(shares)>> \o Retain(Tail(shares), user_id)

\* transfer_ownership: the new owner leaves the share list, the previous
\* owner enters it as an editor unless the list names them already.
TransferredBody(doc, arg) ==
    LET kept == Retain(IF IsSome(doc.sharedWith) THEN Unwrap(doc.sharedWith) ELSE <<>>,
                       arg.new_owner_id)
        named == \E i \in 1..Len(kept) : kept[i].userId = arg.previous_owner_id
        entry == [userId |-> arg.previous_owner_id,
                  userName |-> IF IsSome(doc.lastModifiedByName)
                               THEN Unwrap(doc.lastModifiedByName) ELSE "Previous Owner",
                  permission |-> "edit", sharedAt |-> now]
    IN  [doc EXCEPT !.ownerId = Some(arg.new_owner_id),
                    !.ownerName = Some(arg.new_owner_name),
                    !.sharedWith = Some(IF named THEN kept ELSE Append(kept, entry))]

\* get_document reads the body file (Err when it is gone) and the call changes
\* the body it has read; save_document follows.
StoreRead(t) ==
    /\ Steps(t, "read")
    /\ UNCHANGED <<disk_vars, deleted>>
    /\ LET task == store_task[t]
       IN  IF task.doc_id \notin DOMAIN files
           THEN store_task' = [store_task EXCEPT ![t] = Return(task, "Failed to read document")]
           ELSE LET doc == files[task.doc_id]
                    arg == Unwrap(task.arg)
                    body == CASE task.op = "set_lock" -> LockedBody(doc, arg)
                              [] task.op = "update_document_shares" -> SharedBody(doc, arg)
                              [] OTHER -> TransferredBody(doc, arg)
                IN  store_task' = [store_task EXCEPT ![t] =
                        [task EXCEPT !.pc = "write", !.doc = Some(body)]]

\* The clock moves on.
Tick ==
    /\ now < MaxNow
    /\ now' = now + 1
    /\ UNCHANGED <<server_vars, disk_vars, permission_call, host_vars, store_task, generation,
                   deleted, store_calls>>

\* The process is stopped with no call under way and started again:
\* DocumentStore::new builds an empty index and load_index fills it from
\* index.json.
Restart ==
    /\ generation <= MaxRestarts
    /\ \A t \in StoreThreads : store_task[t].pc = "idle"
    /\ generation' = generation + 1
    /\ index' = load_index(index_json)
    /\ UNCHANGED <<server_vars, files, index_json, permission_call, host_vars, store_task, now,
                   deleted, store_calls>>

(***************************************************************************)
(* protocol.rs: the frames clients send and the messages the server sends. *)
(***************************************************************************)
\* A frame a client sends: `[type-byte | JSON payload]`. malformed is TRUE when
\* decode_payload fails on it; sender and seq tag the opaque bytes of a SYNC
\* or AWARENESS frame with the connection that chose them and with the count
\* of frames sent, so that no two forwarded frames are alike.
Frame(tag) ==
    [tag |-> tag, malformed |-> FALSE, sender |-> 0, seq |-> 0, token |-> None, username |-> "",
     password |-> "", doc_id |-> "", document |-> None]

AuthFrames ==
    { [Frame(MESSAGE_AUTH) EXCEPT !.token = Some(t)] : t \in Tokens }
    \cup { [Frame(MESSAGE_AUTH) EXCEPT !.malformed = TRUE] }

AuthLoginFrames ==
    { [Frame(MESSAGE_AUTH_LOGIN) EXCEPT !.username = "alice", !.password = "pw-alice"],
      [Frame(MESSAGE_AUTH_LOGIN) EXCEPT !.username = "bob", !.password = "wrong"],
      [Frame(MESSAGE_AUTH_LOGIN) EXCEPT !.username = "mallory", !.password = "wrong"],
      [Frame(MESSAGE_AUTH_LOGIN) EXCEPT !.malformed = TRUE] }

SyncFrames(c) == { [Frame(MESSAGE_SYNC) EXCEPT !.sender = c, !.seq = frames + 1] }
AwarenessFrames(c) == { [Frame(MESSAGE_AWARENESS) EXCEPT !.sender = c, !.seq = frames + 1] }
DocListFrames == { Frame(MESSAGE_DOC_LIST), [Frame(MESSAGE_DOC_LIST) EXCEPT !.malformed = TRUE] }
DocGetFrames == { [Frame(MESSAGE_DOC_GET) EXCEPT !.doc_id = d] : d \in DocIds }
DocSaveFrames == { [Frame(MESSAGE_DOC_SAVE) EXCEPT !.document = Some(b)] : b \in Bodies }
DocDeleteFrames == { [Frame(MESSAGE_DOC_DELETE) EXCEPT !.doc_id = d] : d \in DocIds }
JoinDocFrames == { [Frame(MESSAGE_JOIN_DOC) EXCEPT !.doc_id = d] : d \in DocIds }
\* Tags handle_message has no arm for.
OtherFrames ==
    { [Frame(MESSAGE_DOC_SHARE) EXCEPT !.doc_id = "d1"],
      [Frame(MESSAGE_DOC_TRANSFER) EXCEPT !.doc_id = "d1"] }

\* A message the server sends; one record shape serves every payload type.
Message(tag) ==
    [tag |-> tag, sender |-> 0, seq |-> 0, success |-> FALSE, error |-> None, user_id |-> None,
     username |-> None, role |-> None, token |-> None, doc_id |-> None,
     event_type |-> None, document |-> None, documents |-> {}, metadata |-> None]

AuthResponse(success, user_id, username, role, token, error) ==
    [Message(MESSAGE_AUTH_RESPONSE) EXCEPT !.success = success, !.user_id = user_id,
        !.username = username, !.role = role, !.token = token, !.error = error]

DocListResponse(documents) ==
    [Message(MESSAGE_DOC_LIST) EXCEPT !.documents = documents]

DocGetResponse(document, error) ==
    [Message(MESSAGE_DOC_GET) EXCEPT !.document = document, !.error = error]

DocSaveResponse(success, error) ==
    [Message(MESSAGE_DOC_SAVE) EXCEPT !.success = success, !.error = error]

DocDeleteResponse(success, error) ==
    [Message(MESSAGE_DOC_DELETE) EXCEPT !.success = success, !.error = error]

DocEvent(event_type, doc_id, metadata, user_id) ==
    [Message(MESSAGE_DOC_EVENT) EXCEPT !.event_type = Some(event_type),
        !.doc_id = Some(doc_id), !.metadata = metadata, !.user_id = Some(user_id)]

ErrorResponse(error) ==
    [Message(MESSAGE_ERROR) EXCEPT !.error = Some(error)]

\* The bytes of a forwarded SYNC or AWARENESS frame (data.to_vec()).
Forwarded(f) == [Message(f.tag) EXCEPT !.sender = f.sender, !.seq = f.seq]

(***************************************************************************)
(* auth/users.rs: the user store.  Each call holds the write lock of the   *)
(* map for its check and its change, and persists afterwards.              *)
(***************************************************************************)
\* A User record as the store holds it.
StoredUser(id, username, role, password) ==
    [id |-> id, username |-> username, role |-> role, password |-> password,
     last_login_at |-> None]

\* The users the host adds: ids and usernames that meet those of stored users
\* and fresh ones; usernames that differ in case only.
NewUsers ==
    { StoredUser(id, name, "user", "pw") :
        id \in {"alice", "n1", "n2"}, name \in {"alice", "Alice", "dave"} }

\* UserStore::persist: the whole map is serialised to the users file.
persist(store) == [store EXCEPT !.file = Some(store.users)]

\* add_user that looks for the id only, not for the username.
add_user_by_id(store, user) ==
    IF user.id \in DOMAIN store.users
    THEN [ok |-> FALSE, err |-> "Username already exists", store |-> store]
    ELSE [ok |-> TRUE, err |-> "",
          store |-> persist([store EXCEPT !.users = Put(@, user.id, user)])]

\* UserStore::add_user: Err when a stored user has the username; otherwise the
\* user is inserted under its id and the map is persisted.
add_user(store, user) ==
    IF \E i \in DOMAIN store.users : store.users[i].username = user.username
    THEN [ok |-> FALSE, err |-> "Username already exists", store |-> store]
    ELSE [ok |-> TRUE, err |-> "",
          store |-> persist([store EXCEPT !.users = Put(@, user.id, user)])]

\* UserStore::update_last_login: stamps the user if the id is known, and
\* persists in either case.
update_last_login(store, id) ==
    persist([store EXCEPT !.users =
        [i \in DOMAIN @ |-> IF i = id THEN [@[i] EXCEPT !.last_login_at = Some(now)]
                                     ELSE @[i]]])

\* UserStore::remove_user: Ok(removed); persists when a user was removed.
remove_user(store, id) ==
    IF id \in DOMAIN store.users
    THEN [removed |-> TRUE, store |-> persist([store EXCEPT !.users = Drop(@, id)])]
    ELSE [removed |-> FALSE, store |-> store]

\* UserStore::with_persistence on the users file the store Users were saved
\* to; UserStore::new, or a first run, gives the empty store.
LoadedUsers ==
    [i \in UserIds |->
        LET u == CHOOSE x \in Users : x.id = i
        IN  StoredUser(u.id, u.username, u.role, u.password)]

EmptyStore == [users |-> <<>>, file |-> None]

LoadedStore == [users |-> LoadedUsers, file |-> Some(LoadedUsers)]

(***************************************************************************)
(* server/mod.rs: the server manager.  The host's commands reach it        *)
(* through the lock of AppState.server: set_config under the read lock,    *)
(* start and stop under the write lock, so a call runs as one step.        *)
(***************************************************************************)
\* ServerConfig::default.
DefaultConfig == [network_mode |-> "lan", max_connections |-> 10, port |-> 9876]

\* The configurations the host sets.
Configs ==
    { [network_mode |-> m, max_connections |-> n, port |-> p] :
        m \in {"localhost", "lan"}, n \in {0, 10}, p \in {9876, 9877} }

\* The ports the host starts the server on; 0 lets the system choose.
Ports == {0, 9876, 9877}

\* WebSocketServer::new.  serve_task tells whether the serving task that
\* holds the receiver of the current shutdown_tx is alive; old_tasks counts
\* the serving tasks whose shutdown signal was sent, or whose sender was
\* dropped, and that have not yet ended.  state is the shared ServerState
\* (with its document store) of the latest start, app_data_dir the directory
\* set at setup.
NewServer ==
    [running |-> FALSE, port |-> 0, config |-> DefaultConfig, serve_task |-> FALSE,
     old_tasks |-> 0, app_data_dir |-> None, state |-> None]

\* WebSocketServer::set_app_data_dir.
set_app_data_dir(server, dir) == [server EXCEPT !.app_data_dir = Some(dir)]

\* set_config that does not look at the running flag.
set_config_always(server, config) ==
    [ok |-> TRUE, err |-> "", server |-> [server EXCEPT !.config = config]]

\* WebSocketServer::set_config: Err while the server is running.
set_config(server, config) ==
    IF server.running
    THEN [ok |-> FALSE, err |-> "Cannot change configuration while server is running",
          server |-> server]
    ELSE [ok |-> TRUE, err |-> "", server |-> [server EXCEPT !.config = config]]

\* WebSocketServer::start(port): Err when running; otherwise the port enters
\* the stored configuration, the shared state is built on the app data
\* directory (Err when none is set), the listener is bound (actual_port is
\* the port it got, None when the bind failed), the running flag and the
\* port are set and the serving task is spawned.
start(server, port, actual_port) ==
    IF server.running
    THEN [ok |-> FALSE, err |-> "Server is already running", server |-> server]
    ELSE LET configured == [server EXCEPT !.config.port = port]
             prepared == [configured EXCEPT !.state = Some("ServerState"),
                                            !.serve_task = FALSE,
                                            !.old_tasks = @ + (IF server.serve_task THEN 1 ELSE 0)]
         IN  IF ~IsSome(server.app_data_dir)
             THEN [ok |-> FALSE, err |-> "App data directory not set", server |-> configured]
             ELSE IF ~IsSome(actual_port)
                  THEN [ok |-> FALSE, err |-> "Failed to bind", server |-> prepared]
                  ELSE [ok |-> TRUE, err |-> "",
                        server |-> [prepared EXCEPT !.running = TRUE,
                                                    !.port = Unwrap(actual_port),
                                                    !.serve_task = TRUE]]

\* The ports a listener bound to `port` may report: the port itself, or None
\* when the address is in use; for port 0 a free port the system chose.
ActualPorts(port) == IF port = 0 THEN { Some(49152) } ELSE { None, Some(port) }

\* stop that leaves the port where it is.
stop_keeps_port(server) ==
    IF ~server.running THEN server
    ELSE [server EXCEPT !.running = FALSE, !.state = None,
                        !.serve_task = FALSE,
                        !.old_tasks = @ + (IF server.serve_task THEN 1 ELSE 0)]

\* WebSocketServer::stop: the shutdown signal is sent, the running flag and
\* the port are cleared.  The serving task ends on its own.
stop(server) ==
    IF ~server.running THEN server
    ELSE [server EXCEPT !.running = FALSE, !.port = 0, !.state = None,
                        !.serve_task = FALSE,
                        !.old_tasks = @ + (IF server.serve_task THEN 1 ELSE 0)]

\* WebSocketServer::is_running.
is_running(server) == server.running

\* WebSocketServer::status: the flag, the port and the primary address,
\* empty when the flag is clear.
status(server) ==
    [running |-> server.running,
     port |-> server.port,
     address |-> IF server.running
                 THEN Some([host |-> IF server.config.network_mode = "localhost"
                                     THEN "localhost" ELSE "lan", port |-> server.port])
                 ELSE None,
     network_mode |-> server.config.network_mode,
     max_connections |-> server.config.max_connections]

\* WebSocketServer::get_doc_store: the document store of the shared state.
get_doc_store(server) == IF IsSome(server.state) THEN Some("DocumentStore") ELSE None

\* list_team_documents and the other direct document commands of the host.
list_team_documents(server) ==
    IF IsSome(get_doc_store(server)) THEN [ok |-> TRUE, err |-> ""]
    ELSE [ok |-> FALSE, err |-> "Server not running"]

\* The end of the serving task on a server error: it clears the running
\* flag and the port.
serve_task_end(server) ==
    [server EXCEPT !.running = FALSE, !.port = 0, !.serve_task = FALSE]

\* The end of a serving task after its shutdown signal: it clears the running
\* flag and the port, whichever start set them.
old_task_end(server) ==
    [server EXCEPT !.running = FALSE, !.port = 0, !.old_tasks = @ - 1]

(***************************************************************************)
(* The initial state.                                                      *)
(***************************************************************************)
\* What DocumentStore::new finds in the data directory: nothing (first run), or
\* the document an earlier run of the server saved.
InitialFiles ==
    { <<>>,
      [d \in {"d1"} |-> Document(Some("d1"), Some("bob"), Some(<<Share("carol", "view")>>))] }

\* ServerState::new: no session, an empty broadcast channel.
ServerInit ==
    /\ clients = <<>>
    /\ next_client_id = 1
    /\ broadcast_rx = <<>>
    /\ broadcast_task = <<>>
    /\ outbound = <<>>
    /\ dispatcher = <<>>
    /\ last_login = {}
    /\ frames = 0

\* DocumentStore::new on a data directory that holds the body files fs and
\* the index.json written for them.
DiskInit(fs) ==
    /\ files = fs
    /\ index_json = IF fs = <<>> THEN None
                    ELSE save_index([d \in DOMAIN fs |-> MetadataOf(fs[d])])
    /\ index = load_index(index_json)

\* No thread is inside a call of the store.
CallInit ==
    /\ store_task = [t \in StoreThreads |-> Idle]
    /\ now = 2
    /\ generation = 1
    /\ deleted = {}
    /\ store_calls = 0

\* The host while its server runs: the users file is loaded, the server was
\* started with the default configuration, no call of a codec is under way.
HostInit ==
    /\ user_store = LoadedStore
    /\ web_socket_server = [NewServer EXCEPT !.running = TRUE, !.port = DefaultConfig.port,
                                             !.serve_task = TRUE,
                                             !.app_data_dir = Some("app_data_dir"),
                                             !.state = Some("ServerState")]
    /\ command_result = None
    /\ token_call = None
    /\ codec_call = None

Init ==
    /\ ServerInit
    /\ \E fs \in InitialFiles : DiskInit(fs)
    /\ CallInit
    /\ permission_call = None
    /\ HostInit

(***************************************************************************)
(* The broadcast router.                                                   *)
(***************************************************************************)
\* broadcast_tx.send that puts the envelope before the unread ones.
BroadcastPrepend(envelope) ==
    [c \in DOMAIN broadcast_rx |->
        IF broadcast_task[c].pc = "done" \/ broadcast_rx[c].lagged
        THEN broadcast_rx[c]
        ELSE IF Len(broadcast_rx[c].queue) < BroadcastCapacity
             THEN [broadcast_rx[c] EXCEPT !.queue = <<envelope>> \o @]
             ELSE [queue |-> <<>>, lagged |-> TRUE]]

\* broadcast_tx.send(envelope): every live receiver gets the envelope; one that
\* already holds BroadcastCapacity unread envelopes has lagged, and its next
\* recv() returns Err(Lagged) (what it had queued is no longer read).
Broadcast(envelope) ==
    [c \in DOMAIN broadcast_rx |->
        IF broadcast_task[c].pc = "done" \/ broadcast_rx[c].lagged
        THEN broadcast_rx[c]
        ELSE IF Len(broadcast_rx[c].queue) < BroadcastCapacity
             THEN [broadcast_rx[c] EXCEPT !.queue = Append(@, envelope)]
             ELSE [queue |-> <<>>, lagged |-> TRUE]]

\* ServerState::broadcast_to_doc.
broadcast_to_doc(doc_id, data, exclude_client) ==
    Broadcast([doc_id |-> Some(doc_id), exclude_client |-> exclude_client, data |-> data])

\* ServerState::broadcast_to_all.
broadcast_to_all(data, exclude_client) ==
    Broadcast([doc_id |-> None, exclude_client |-> exclude_client, data |-> data])

\* should_send without the document filter: a document-scoped envelope goes
\* to every session but the excluded one.
should_send_any_doc(c, msg) ==
    IF c \in DOMAIN clients
    THEN IF msg.exclude_client = Some(c) THEN FALSE
         ELSE IF IsSome(msg.doc_id) THEN TRUE ELSE clients[c].authenticated
    ELSE FALSE

\* should_send without the exclusion of the sender.
should_send_no_exclude(c, msg) ==
    IF c \in DOMAIN clients
    THEN IF IsSome(msg.doc_id)
         THEN clients[c].current_doc_id = msg.doc_id
         ELSE clients[c].authenticated
    ELSE FALSE

\* should_send that lets a global envelope through to every session.
should_send_global_to_all(c, msg) ==
    IF c \in DOMAIN clients
    THEN IF msg.exclude_client = Some(c) THEN FALSE
         ELSE IF IsSome(msg.doc_id)
              THEN clients[c].current_doc_id = msg.doc_id
              ELSE TRUE
    ELSE FALSE

\* The broadcast task's filter: whether envelope msg goes to connection c.
should_send(c, msg) ==
    IF c \in DOMAIN clients
    THEN IF msg.exclude_client = Some(c) THEN FALSE
         ELSE IF IsSome(msg.doc_id)
              THEN clients[c].current_doc_id = msg.doc_id
              ELSE clients[c].authenticated
    ELSE FALSE

(***************************************************************************)
(* The message dispatcher.  A handler runs as one step up to its call of   *)
(* send_to_client, which is a step of its own (it waits for room in the    *)
(* session's outbound queue).                                              *)
(***************************************************************************)
\* The handler of connection c ends by sending msg with send_to_client.
Respond(c, msg) == dispatcher' = [dispatcher EXCEPT ![c] = Some(msg)]

\* handle_auth that takes the authentication back when the token is refused.
handle_auth_reset(c, f) ==
    /\ UNCHANGED <<next_client_id, broadcast_rx, broadcast_task, outbound, index, files, index_json, last_login>>
    /\ IF f.malformed
       THEN /\ Respond(c, AuthResponse(FALSE, None, None, None, None, Some("Invalid token format")))
            /\ UNCHANGED clients
       ELSE LET res == validate_jwt(Unwrap(f.token))
                token == Unwrap(res.claims)
            IN  IF res.ok
                THEN /\ clients' = [clients EXCEPT ![c] =
                            [@ EXCEPT !.user_id = Some(token.sub),
                                      !.username = Some(token.username),
                                      !.role = Some(token.role),
                                      !.authenticated = TRUE]]
                     /\ Respond(c, AuthResponse(TRUE, Some(token.sub), Some(token.username),
                                                Some(token.role), None, None))
                ELSE /\ Respond(c, AuthResponse(FALSE, None, None, None, None, Some(res.err)))
                     /\ clients' = [clients EXCEPT ![c] = [@ EXCEPT !.authenticated = FALSE]]

\* handle_auth: token authentication.
handle_auth(c, f) ==
    /\ UNCHANGED <<next_client_id, broadcast_rx, broadcast_task, outbound, index, files, index_json, last_login>>
    /\ IF f.malformed
       THEN /\ Respond(c, AuthResponse(FALSE, None, None, None, None, Some("Invalid token format")))
            /\ UNCHANGED clients
       ELSE LET res == validate_jwt(Unwrap(f.token))
                token == Unwrap(res.claims)
            IN  IF res.ok
                THEN /\ clients' = [clients EXCEPT ![c] =
                            [@ EXCEPT !.user_id = Some(token.sub),
                                      !.username = Some(token.username),
                                      !.role = Some(token.role),
                                      !.authenticated = TRUE]]
                     /\ Respond(c, AuthResponse(TRUE, Some(token.sub), Some(token.username),
                                                Some(token.role), None, None))
                ELSE /\ Respond(c, AuthResponse(FALSE, None, None, None, None, Some(res.err)))
                     /\ UNCHANGED clients

\* handle_auth_login with an answer of its own for a username nobody has.
handle_auth_login_user_not_found(c, f) ==
    /\ UNCHANGED <<next_client_id, broadcast_rx, broadcast_task, outbound, index, files, index_json>>
    /\ IF f.malformed
       THEN /\ Respond(c, AuthResponse(FALSE, None, None, None, None, Some("Invalid request format")))
            /\ UNCHANGED <<clients, last_login>>
       ELSE LET found == get_user_by_username(f.username)
            IN  IF ~IsSome(found)
                THEN /\ Respond(c, AuthResponse(FALSE, None, None, None, None,
                                                Some("User not found")))
                     /\ UNCHANGED <<clients, last_login>>
                ELSE LET user == Unwrap(found)
                     IN  IF ~verify_password(f.password, user)
                         THEN /\ Respond(c, AuthResponse(FALSE, None, None, None, None,
                                                         Some("Invalid username or password")))
                              /\ UNCHANGED <<clients, last_login>>
                         ELSE /\ last_login' = last_login \cup {user.id}
                              /\ clients' = [clients EXCEPT ![c] =
                                     [@ EXCEPT !.user_id = Some(user.id),
                                               !.username = Some(user.username),
                                               !.role = Some(user.role),
                                               !.authenticated = TRUE]]
                              /\ Respond(c, AuthResponse(TRUE, Some(user.id), Some(user.username),
                                     Some(user.role),
                                     Some(create_token(user.id, user.username, user.role,
                                                       DefaultTokenConfig).token),
                                     None))

\* handle_auth_login: username and password authentication against the user
\* store the host configures at setup.
handle_auth_login(c, f) ==
    /\ UNCHANGED <<next_client_id, broadcast_rx, broadcast_task, outbound, index, files, index_json>>
    /\ IF f.malformed
       THEN /\ Respond(c, AuthResponse(FALSE, None, None, None, None, Some("Invalid request format")))
            /\ UNCHANGED <<clients, last_login>>
       ELSE LET found == get_user_by_username(f.username)
            IN  IF ~IsSome(found)
                THEN /\ Respond(c, AuthResponse(FALSE, None, None, None, None,
                                                Some("Invalid username or password")))
                     /\ UNCHANGED <<clients, last_login>>
                ELSE LET user == Unwrap(found)
                     IN  IF ~verify_password(f.password, user)
                         THEN /\ Respond(c, AuthResponse(FALSE, None, None, None, None,
                                                         Some("Invalid username or password")))
                              /\ UNCHANGED <<clients, last_login>>
                         ELSE /\ last_login' = last_login \cup {user.id}
                              /\ clients' = [clients EXCEPT ![c] =
                                     [@ EXCEPT !.user_id = Some(user.id),
                                               !.username = Some(user.username),
                                               !.role = Some(user.role),
                                               !.authenticated = TRUE]]
                              /\ Respond(c, AuthResponse(TRUE, Some(user.id), Some(user.username),
                                     Some(user.role),
                                     Some(create_token(user.id, user.username, user.role,
                                                       DefaultTokenConfig).token),
                                     None))

\* handle_sync: forward the frame to the sessions on the sender's document.
handle_sync(c, f) ==
    /\ UNCHANGED <<clients, next_client_id, broadcast_task, outbound, dispatcher, index, files, index_json, last_login>>
    /\ IF IsSome(clients[c].current_doc_id)
       THEN broadcast_rx' = broadcast_to_doc(Unwrap(clients[c].current_doc_id), Forwarded(f), Some(c))
       ELSE UNCHANGED broadcast_rx

\* handle_awareness: forward the frame to the sessions on the sender's document.
handle_awareness(c, f) ==
    /\ UNCHANGED <<clients, next_client_id, broadcast_task, outbound, dispatcher, index, files, index_json, last_login>>
    /\ IF IsSome(clients[c].current_doc_id)
       THEN broadcast_rx' = broadcast_to_doc(Unwrap(clients[c].current_doc_id), Forwarded(f), Some(c))
       ELSE UNCHANGED broadcast_rx

\* handle_doc_list.
handle_doc_list(c, f) ==
    /\ UNCHANGED <<clients, next_client_id, broadcast_rx, broadcast_task, outbound, index, files, index_json, last_login>>
    /\ IF f.malformed
       THEN UNCHANGED dispatcher
       ELSE Respond(c, DocListResponse(list_documents(index)))

\* handle_doc_get.
handle_doc_get(c, f) ==
    /\ UNCHANGED <<clients, next_client_id, broadcast_rx, broadcast_task, outbound, index, files, index_json, last_login>>
    /\ IF f.malformed
       THEN UNCHANGED dispatcher
       ELSE LET res == get_document(index, files, f.doc_id)
            IN  IF res.ok
                THEN Respond(c, DocGetResponse(res.doc, None))
                ELSE Respond(c, DocGetResponse(None, Some(res.err)))

\* The event type handle_doc_save gives its DOC_EVENT: it looks the metadata
\* up in the index after the save.
SaveEventType(idx_after, doc_id) ==
    IF IsSome(get_metadata(idx_after, doc_id)) THEN "updated" ELSE "created"

\* handle_doc_save.
handle_doc_save(c, f) ==
    /\ UNCHANGED <<clients, next_client_id, broadcast_task, outbound, last_login>>
    /\ IF f.malformed
       THEN UNCHANGED <<dispatcher, broadcast_rx, index, files, index_json>>
       ELSE LET document == Unwrap(f.document)
                doc_id == IF IsSome(document.id) THEN Unwrap(document.id) ELSE ""
                user_id == IF IsSome(clients[c].user_id) THEN Unwrap(clients[c].user_id) ELSE ""
                res == save_document(index, files, document)
            IN  /\ index' = res.index
                /\ files' = res.files
                /\ index_json' = res.index_json
                /\ IF res.ok
                   THEN /\ broadcast_rx' = broadcast_to_all(
                               DocEvent(SaveEventType(res.index, doc_id), doc_id,
                                        get_metadata(res.index, doc_id), user_id), None)
                        /\ Respond(c, DocSaveResponse(TRUE, None))
                   ELSE /\ UNCHANGED broadcast_rx
                        /\ Respond(c, DocSaveResponse(FALSE, Some(res.err)))

\* handle_doc_delete.
handle_doc_delete(c, f) ==
    /\ UNCHANGED <<clients, next_client_id, broadcast_task, outbound, last_login>>
    /\ IF f.malformed
       THEN UNCHANGED <<dispatcher, broadcast_rx, index, files, index_json>>
       ELSE LET user_id == IF IsSome(clients[c].user_id) THEN Unwrap(clients[c].user_id) ELSE ""
                res == delete_document(index, files, f.doc_id)
            IN  /\ index' = res.index
                /\ files' = res.files
                /\ index_json' = res.index_json
                /\ IF res.deleted
                   THEN broadcast_rx' = broadcast_to_all(
                            DocEvent("deleted", f.doc_id, None, user_id), None)
                   ELSE UNCHANGED broadcast_rx
                /\ Respond(c, DocDeleteResponse(res.deleted, None))

\* handle_join_doc.
handle_join_doc(c, f) ==
    /\ UNCHANGED <<next_client_id, broadcast_rx, broadcast_task, outbound, dispatcher, index, files, index_json, last_login>>
    /\ IF f.malformed
       THEN UNCHANGED clients
       ELSE clients' = [clients EXCEPT ![c] = [@ EXCEPT !.current_doc_id = Some(f.doc_id)]]

\* handle_message: route a frame by its type byte.
handle_message(c, f) ==
    CASE f.tag = MESSAGE_AUTH -> handle_auth(c, f)
      [] f.tag = MESSAGE_AUTH_LOGIN -> handle_auth_login(c, f)
      [] f.tag = MESSAGE_SYNC -> handle_sync(c, f)
      [] f.tag = MESSAGE_AWARENESS -> handle_awareness(c, f)
      [] f.tag = MESSAGE_DOC_LIST -> handle_doc_list(c, f)
      [] f.tag = MESSAGE_DOC_GET -> handle_doc_get(c, f)
      [] f.tag = MESSAGE_DOC_SAVE -> handle_doc_save(c, f)
      [] f.tag = MESSAGE_DOC_DELETE -> handle_doc_delete(c, f)
      [] f.tag = MESSAGE_JOIN_DOC -> handle_join_doc(c, f)
      [] OTHER -> UNCHANGED <<clients, next_client_id, broadcast_rx, broadcast_task,
                              outbound, dispatcher, index, files, index_json, last_login>>

\* The inbound loop of connection c is ready for its next frame: it reads one
\* only when the handler of the last one has returned.
Reads(c) ==
    /\ c \in DOMAIN clients
    /\ dispatcher[c] = None
    /\ frames < MaxFrames
    /\ frames' = frames + 1
    /\ UNCHANGED <<call_vars, permission_call, host_vars>>

\* send_to_client: the response enters the session's outbound queue, waiting
\* while the queue is full.
send_to_client(c) ==
    /\ c \in DOMAIN clients
    /\ IsSome(dispatcher[c])
    /\ Len(outbound[c]) < OutboundCapacity
    /\ outbound' = [outbound EXCEPT ![c] = Append(@, Unwrap(dispatcher[c]))]
    /\ dispatcher' = [dispatcher EXCEPT ![c] = None]
    /\ UNCHANGED <<clients, next_client_id, broadcast_rx, broadcast_task, index, files, index_json, last_login, frames>>
    /\ UNCHANGED <<call_vars, permission_call, host_vars>>

(***************************************************************************)
(* handle_socket: the connection and its three tasks.                      *)
(***************************************************************************)
\* A connection is accepted: the session is registered unauthenticated, with a
\* fresh receiver on the broadcast channel and an empty outbound queue.
Connect ==
    /\ next_client_id <= MaxClients
    /\ LET c == next_client_id
       IN  /\ next_client_id' = c + 1
           /\ clients' = Put(clients, c,
                  [id |-> c, user_id |-> None, username |-> None, role |-> None,
                   current_doc_id |-> None, authenticated |-> FALSE])
           /\ broadcast_rx' = Put(broadcast_rx, c, [queue |-> <<>>, lagged |-> FALSE])
           /\ broadcast_task' = Put(broadcast_task, c, [pc |-> "recv", data |-> None])
           /\ outbound' = Put(outbound, c, <<>>)
           /\ dispatcher' = Put(dispatcher, c, None)
    /\ UNCHANGED <<index, files, index_json, last_login, frames>>
    /\ UNCHANGED <<call_vars, permission_call, host_vars>>

\* The inbound loop ends (close frame or socket error): both tasks are aborted
\* and the session is removed from the table.
Disconnect(c) ==
    /\ c \in DOMAIN clients
    /\ dispatcher[c] = None
    /\ clients' = Drop(clients, c)
    /\ broadcast_rx' = Drop(broadcast_rx, c)
    /\ broadcast_task' = Drop(broadcast_task, c)
    /\ outbound' = Drop(outbound, c)
    /\ dispatcher' = Drop(dispatcher, c)
    /\ UNCHANGED <<next_client_id, index, files, index_json, last_login, frames>>
    /\ UNCHANGED <<call_vars, permission_call, host_vars>>

\* broadcast_task, the receive half: take the next envelope and decide under
\* the session table's read lock whether it is for this session.  A receiver
\* that lagged gets Err(Lagged) and the task's loop ends.
BroadcastRecv(c) ==
    /\ c \in DOMAIN clients
    /\ broadcast_task[c].pc = "recv"
    /\ IF broadcast_rx[c].lagged
       THEN /\ broadcast_task' = [broadcast_task EXCEPT ![c] = [pc |-> "done", data |-> None]]
            /\ UNCHANGED broadcast_rx
       ELSE /\ broadcast_rx[c].queue # <<>>
            /\ LET msg == Head(broadcast_rx[c].queue)
               IN  /\ broadcast_rx' = [broadcast_rx EXCEPT ![c].queue = Tail(@)]
                   /\ IF should_send(c, msg)
                      THEN broadcast_task' = [broadcast_task EXCEPT ![c] =
                                                 [pc |-> "send", data |-> Some(msg.data)]]
                      ELSE UNCHANGED broadcast_task
    /\ UNCHANGED <<clients, next_client_id, outbound, dispatcher, index, files, index_json, last_login, frames>>
    /\ UNCHANGED <<call_vars, permission_call, host_vars>>

\* broadcast_task, the send half: tx.send(msg.data).await, waiting while the
\* session's outbound queue is full.
BroadcastForward(c) ==
    /\ c \in DOMAIN clients
    /\ broadcast_task[c].pc = "send"
    /\ Len(outbound[c]) < OutboundCapacity
    /\ outbound' = [outbound EXCEPT ![c] = Append(@, Unwrap(broadcast_task[c].data))]
    /\ broadcast_task' = [broadcast_task EXCEPT ![c] = [pc |-> "recv", data |-> None]]
    /\ UNCHANGED <<clients, next_client_id, broadcast_rx, dispatcher, index, files, index_json, last_login, frames>>
    /\ UNCHANGED <<call_vars, permission_call, host_vars>>

\* send_task: write the head of the outbound queue to the socket.
SendTask(c) ==
    /\ c \in DOMAIN clients
    /\ outbound[c] # <<>>
    /\ outbound' = [outbound EXCEPT ![c] = Tail(@)]
    /\ UNCHANGED <<clients, next_client_id, broadcast_rx, broadcast_task, dispatcher, index, files, index_json, last_login, frames>>
    /\ UNCHANGED <<call_vars, permission_call, host_vars>>

(***************************************************************************)
(* lib.rs: the host's direct document commands (the server is running).    *)
(***************************************************************************)
\* The event type save_team_document gives its DOC_EVENT: it looks the
\* metadata up in the index before the save.
HostSaveEventType(idx_before, doc_id) ==
    IF ~IsSome(get_metadata(idx_before, doc_id)) THEN "created" ELSE "updated"

\* save_team_document, with WebSocketServer::broadcast_doc_event.
save_team_document(document) ==
    /\ frames < MaxFrames
    /\ frames' = frames + 1
    /\ IF ~IsSome(document.id)
       THEN UNCHANGED <<index, files, index_json, broadcast_rx>>
       ELSE LET doc_id == Unwrap(document.id)
                res == save_document(index, files, document)
            IN  /\ index' = res.index
                /\ files' = res.files
                /\ index_json' = res.index_json
                /\ broadcast_rx' = broadcast_to_all(
                       DocEvent(HostSaveEventType(index, doc_id), doc_id,
                                get_metadata(res.index, doc_id), "system"), None)
    /\ UNCHANGED <<clients, next_client_id, broadcast_task, outbound, dispatcher, last_login>>
    /\ UNCHANGED <<call_vars, permission_call, host_vars>>

\* delete_team_document, with WebSocketServer::broadcast_doc_event.
delete_team_document(doc_id) ==
    /\ frames < MaxFrames
    /\ frames' = frames + 1
    /\ LET res == delete_document(index, files, doc_id)
       IN  /\ index' = res.index
           /\ files' = res.files
           /\ index_json' = res.index_json
           /\ IF res.deleted
              THEN broadcast_rx' = broadcast_to_all(
                       DocEvent("deleted", doc_id, get_metadata(res.index, doc_id), "system"), None)
              ELSE UNCHANGED broadcast_rx
    /\ UNCHANGED <<clients, next_client_id, broadcast_task, outbound, dispatcher, last_login>>
    /\ UNCHANGED <<call_vars, permission_call, host_vars>>

(***************************************************************************)
(* The specification.                                                      *)
(***************************************************************************)
ConnIds == 1..MaxClients

Auth ==
    \E c \in ConnIds : \E f \in AuthFrames :
        /\ Reads(c)
        /\ handle_message(c, f)
AuthLogin ==
    \E c \in ConnIds : \E f \in AuthLoginFrames :
        /\ Reads(c)
        /\ handle_message(c, f)
Sync ==
    \E c \in ConnIds : \E f \in SyncFrames(c) :
        /\ Reads(c)
        /\ handle_message(c, f)
Awareness ==
    \E c \in ConnIds : \E f \in AwarenessFrames(c) :
        /\ Reads(c)
        /\ handle_message(c, f)
DocList ==
    \E c \in ConnIds : \E f \in DocListFrames :
        /\ Reads(c)
        /\ handle_message(c, f)
DocGet ==
    \E c \in ConnIds : \E f \in DocGetFrames :
        /\ Reads(c)
        /\ handle_message(c, f)
DocSave ==
    \E c \in ConnIds : \E f \in DocSaveFrames :
        /\ Reads(c)
        /\ handle_message(c, f)
DocDelete ==
    \E c \in ConnIds : \E f \in DocDeleteFrames :
        /\ Reads(c)
        /\ handle_message(c, f)
JoinDoc ==
    \E c \in ConnIds : \E f \in JoinDocFrames :
        /\ Reads(c)
        /\ handle_message(c, f)
OtherFrame ==
    \E c \in ConnIds : \E f \in OtherFrames :
        /\ Reads(c)
        /\ handle_message(c, f)
SendToClient == \E c \in ConnIds : send_to_client(c)
Close == \E c \in ConnIds : Disconnect(c)
Recv == \E c \in ConnIds : BroadcastRecv(c)
Forward == \E c \in ConnIds : BroadcastForward(c)
Drain == \E c \in ConnIds : SendTask(c)
HostSave == \E b \in Bodies : save_team_document(b)
HostDelete == \E d \in DocIds : delete_team_document(d)

Next ==
    \/ Connect
    \/ Close
    \/ Auth
    \/ AuthLogin
    \/ Sync
    \/ Awareness
    \/ DocList
    \/ DocGet
    \/ DocSave
    \/ DocDelete
    \/ JoinDoc
    \/ OtherFrame
    \/ SendToClient
    \/ Recv
    \/ Forward
    \/ Drain
    \/ HostSave
    \/ HostDelete

Spec == Init /\ [][Next]_vars

(***************************************************************************)
(* The document store under concurrent callers.                            *)
(***************************************************************************)
SaveDocument ==
    \E t \in StoreThreads : \E doc \in StoreBodies :
        /\ Calls(t)
        /\ CallSave(t, doc)
DeleteDocument ==
    \E t \in StoreThreads : \E d \in DocIds :
        /\ Calls(t)
        /\ CallDelete(t, d)
SetLock ==
    \E t \in StoreThreads : \E d \in DocIds : \E arg \in LockArgs :
        /\ Calls(t)
        /\ CallUpdate(t, "set_lock", d, arg)
UpdateDocumentShares ==
    \E t \in StoreThreads : \E d \in DocIds : \E arg \in ShareArgs :
        /\ Calls(t)
        /\ CallUpdate(t, "update_document_shares", d, arg)
TransferOwnership ==
    \E t \in StoreThreads : \E d \in DocIds : \E arg \in TransferArgs :
        /\ Calls(t)
        /\ CallUpdate(t, "transfer_ownership", d, arg)
ReadFile == \E t \in StoreThreads : StoreRead(t)
WriteFile == \E t \in StoreThreads : StoreWrite(t)
IndexInsert == \E t \in StoreThreads : StoreInsert(t)
RemoveFile == \E t \in StoreThreads : StoreRemoveFile(t)
IndexRemove == \E t \in StoreThreads : StoreRemove(t)
SaveIndex == \E t \in StoreThreads : StoreSaveIndex(t)

StoreNext ==
    \/ SaveDocument
    \/ DeleteDocument
    \/ SetLock
    \/ UpdateDocumentShares
    \/ TransferOwnership
    \/ ReadFile
    \/ WriteFile
    \/ IndexInsert
    \/ RemoveFile
    \/ IndexRemove
    \/ SaveIndex
    \/ Tick
    \/ Restart

StoreSpec == Init /\ [][StoreNext]_vars

(***************************************************************************)
(* Two sessions in one document that exchange SYNC and AWARENESS frames.   *)
(***************************************************************************)
\* A session as handle_auth and handle_join_doc leave it.
Joined(c, user, doc_id) ==
    [id |-> c, user_id |-> Some(user.id), username |-> Some(user.username),
     role |-> Some(user.role), current_doc_id |-> Some(doc_id), authenticated |-> TRUE]

\* The user of connection c: bob, carol, then alice.
RelayUser(c) ==
    CHOOSE u \in Users :
        u.username = (CASE c = 1 -> "bob" [] c = 2 -> "carol" [] OTHER -> "alice")

\* Every connection has been accepted, has authenticated and has joined
\* document d1; nothing is in flight.
RelayInit ==
    /\ clients = [c \in ConnIds |-> Joined(c, RelayUser(c), "d1")]
    /\ next_client_id = MaxClients + 1
    /\ broadcast_rx = [c \in ConnIds |-> [queue |-> <<>>, lagged |-> FALSE]]
    /\ broadcast_task = [c \in ConnIds |-> [pc |-> "recv", data |-> None]]
    /\ outbound = [c \in ConnIds |-> <<>>]
    /\ dispatcher = [c \in ConnIds |-> None]
    /\ last_login = {}
    /\ frames = 0
    /\ \E fs \in InitialFiles : fs # <<>> /\ DiskInit(fs)
    /\ CallInit
    /\ permission_call = None
    /\ HostInit

RelayNext ==
    \/ Sync
    \/ Awareness
    \/ JoinDoc
    \/ Recv
    \/ Forward
    \/ Drain

RelaySpec == RelayInit /\ [][RelayNext]_vars

\* The envelopes of n earlier SYNC frames of a peer of c on document d1,
\* sent with broadcast_to_doc and not yet taken by the broadcast task of c.
Backlog(c, n) ==
    LET p == CHOOSE q \in ConnIds : q # c
    IN  [i \in 1..n |->
            [doc_id |-> Some("d1"), exclude_client |-> Some(p),
             data |-> Forwarded([Frame(MESSAGE_SYNC) EXCEPT !.sender = p])]]

\* RelayInit later in the run: every receiver holds up to BroadcastCapacity
\* envelopes its broadcast task has not taken yet.
LagInit ==
    /\ clients = [c \in ConnIds |-> Joined(c, RelayUser(c), "d1")]
    /\ next_client_id = MaxClients + 1
    /\ \E n \in [ConnIds -> 0..BroadcastCapacity] :
          broadcast_rx = [c \in ConnIds |-> [queue |-> Backlog(c, n[c]), lagged |-> FALSE]]
    /\ broadcast_task = [c \in ConnIds |-> [pc |-> "recv", data |-> None]]
    /\ outbound = [c \in ConnIds |-> <<>>]
    /\ dispatcher = [c \in ConnIds |-> None]
    /\ last_login = {}
    /\ frames = 0
    /\ \E fs \in InitialFiles : fs # <<>> /\ DiskInit(fs)
    /\ CallInit
    /\ permission_call = None
    /\ HostInit

LagSpec == LagInit /\ [][RelayNext]_vars

(***************************************************************************)
(* The permission evaluator applied to one metadata record.                *)
(***************************************************************************)
\* user_role: absent, "user" or "admin".
Roles == {None, Some("user"), Some("admin")}

\* DocumentShare.permission is any string; these are the ones drawn.
ShareStrings == {"view", "viewer", "View", "edit", "editor", "EDIT", "owner", "none"}

\* shared_with: absent, empty, one entry, two entries for one user, or two
\* entries for two users.
ShareLists ==
    {None, Some(<<>>)}
    \cup { Some(<<Share(u, p)>>) : u \in UserIds, p \in ShareStrings }
    \cup { Some(<<Share(u, "view"), Share(u, "edit")>>) : u \in UserIds }
    \cup { Some(<<Share(p[1], "edit"), Share(p[2], "view")>>) :
               p \in { q \in UserIds \X UserIds : q[1] # q[2] } }

\* The metadata records the evaluator is applied to.
PermissionMetadata ==
    { MetadataOf(Document(Some("d1"), o, sh)) :
        o \in {None} \cup { Some(u) : u \in UserIds }, sh \in ShareLists }

PermissionInit ==
    /\ ServerInit
    /\ DiskInit(<<>>)
    /\ CallInit
    /\ \E m \in PermissionMetadata : \E u \in UserIds : \E r \in Roles :
          permission_call = [metadata |-> m, user_id |-> u, user_role |-> r, result |-> None]
    /\ HostInit

\* get_user_permission is applied to the arguments drawn.
GetUserPermission ==
    /\ permission_call.result = None
    /\ permission_call' = [permission_call EXCEPT !.result =
           Some(get_user_permission(permission_call.metadata, permission_call.user_id,
                                    permission_call.user_role))]
    /\ UNCHANGED <<server_vars, disk_vars, call_vars, host_vars>>

PermissionNext == GetUserPermission

PermissionSpec == PermissionInit /\ [][PermissionNext]_vars

(***************************************************************************)
(* The user store under the calls of the host's account commands and of    *)
(* the login handlers.                                                     *)
(***************************************************************************)
\* What no call of the user store changes.
UserStoreFrame ==
    UNCHANGED <<server_vars, disk_vars, call_vars, permission_call, web_socket_server,
                token_call, codec_call>>

UserInit ==
    /\ ServerInit
    /\ DiskInit(<<>>)
    /\ CallInit
    /\ permission_call = None
    /\ user_store \in {EmptyStore, LoadedStore}
    /\ web_socket_server = NewServer
    /\ command_result = None
    /\ token_call = None
    /\ codec_call = None

AddUserCall(user) ==
    /\ user_store' = add_user(user_store, user).store
    /\ command_result' = [op |-> "add_user", ok |-> add_user(user_store, user).ok,
                          err |-> add_user(user_store, user).err]
    /\ UserStoreFrame

RemoveUserCall(id) ==
    /\ user_store' = remove_user(user_store, id).store
    /\ command_result' = [op |-> "remove_user", ok |-> remove_user(user_store, id).removed,
                          err |-> ""]
    /\ UserStoreFrame

UpdateLastLoginCall(id) ==
    /\ user_store' = update_last_login(user_store, id)
    /\ command_result' = [op |-> "update_last_login", ok |-> TRUE, err |-> ""]
    /\ UserStoreFrame

UserNext ==
    \/ \E user \in NewUsers : AddUserCall(user)
    \/ \E id \in UserIds \cup { u.id : u \in NewUsers } : RemoveUserCall(id)
    \/ \E id \in UserIds \cup { u.id : u \in NewUsers } : UpdateLastLoginCall(id)

UserSpec == UserInit /\ [][UserNext]_vars

(***************************************************************************)
(* A session token is created for a user and validated.                    *)
(***************************************************************************)
TokenInit ==
    /\ ServerInit
    /\ DiskInit(<<>>)
    /\ CallInit
    /\ permission_call = None
    /\ user_store = LoadedStore
    /\ web_socket_server = NewServer
    /\ command_result = None
    /\ codec_call = None
    /\ \E u \in UserIds : \E n \in {"alice", "bob"} : \E r \in {"admin", "user"} :
       \E config \in TokenConfigs :
          token_call = [user_id |-> u, username |-> n, role |-> r, config |-> config,
                        issued |-> None, validated |-> None]

\* What no call of the token functions changes.
TokenFrame ==
    UNCHANGED <<server_vars, disk_vars, call_vars, permission_call, user_store,
                web_socket_server, command_result, codec_call>>

\* create_token is applied to the arguments drawn, at the clock's reading.
CreateToken ==
    /\ token_call.issued = None
    /\ LET created == create_token(token_call.user_id, token_call.username,
                                   token_call.role, token_call.config)
       IN  token_call' = [token_call EXCEPT !.issued =
               Some([at |-> now_secs, token |-> created.token,
                     expires_at_ms |-> created.expires_at_ms])]
    /\ TokenFrame

\* validate_token is applied to the token created, with the configuration
\* that created it or with another one.
ValidateToken ==
    /\ IsSome(token_call.issued)
    /\ token_call.validated = None
    /\ \E config \in TokenConfigs :
          token_call' = [token_call EXCEPT !.validated =
              Some([at |-> now_secs, config |-> config,
                    result |-> validate_token(Unwrap(token_call.issued).token, config)])]
    /\ TokenFrame

TokenNext ==
    \/ CreateToken
    \/ ValidateToken
    \/ Tick

TokenSpec == TokenInit /\ [][TokenNext]_vars

(***************************************************************************)
(* protocol.rs: the codec.  A frame is the tag byte followed by the JSON   *)
(* text of the payload.  The JSON text is a sequence of tokens: for a      *)
(* struct an opening brace, one member per serialised field, a closing     *)
(* brace; for a string the string itself.                                  *)
(***************************************************************************)
\* A JSON value: its kind and its text.
JsonValue(kind, text) == [kind |-> kind, text |-> text]
JsonNull == JsonValue("null", "null")

\* A token of JSON text.
Member(key, value) == [key |-> key, value |-> value]
OpenBrace == Member("{", JsonNull)
CloseBrace == Member("}", JsonNull)

\* A field of a payload struct: its JSON key (rename_all = "camelCase"),
\* whether it is T, Option<T> or Option<T> with skip_serializing_if =
\* "Option::is_none", and T.
Field(key, kind, of) == [key |-> key, kind |-> kind, of |-> of]

\* The payload types: the String of an AUTH frame, AuthRequest,
\* AuthLoginRequest, AuthResponse, DocListRequest, DocListResponse,
\* DocGetRequest, DocGetResponse, DocSaveRequest, DocSaveResponse (and
\* DocDeleteResponse, DocShareResponse, DocTransferResponse, which have the
\* same fields), DocEvent, JoinDocRequest, DocShareRequest,
\* DocTransferRequest and ErrorResponse, in this order.
PayloadTypes ==
    { [top |-> "string", fields |-> <<Field("", "required", "string")>>],
      [top |-> "struct", fields |-> <<Field("token", "required", "string")>>],
      [top |-> "struct", fields |-> <<Field("username", "required", "string"),
                                      Field("password", "required", "string")>>],
      [top |-> "struct", fields |-> <<Field("success", "required", "bool"),
                                      Field("userId", "option_skip", "string"),
                                      Field("username", "option_skip", "string"),
                                      Field("role", "option_skip", "string"),
                                      Field("token", "option_skip", "string"),
                                      Field("tokenExpiresAt", "option_skip", "u64"),
                                      Field("error", "option_skip", "string")>>],
      [top |-> "struct", fields |-> <<Field("requestId", "required", "string")>>],
      [top |-> "struct", fields |-> <<Field("requestId", "required", "string"),
                                      Field("documents", "required", "array")>>],
      [top |-> "struct", fields |-> <<Field("requestId", "required", "string"),
                                      Field("docId", "required", "string")>>],
      [top |-> "struct", fields |-> <<Field("requestId", "required", "string"),
                                      Field("document", "option_skip", "value"),
                                      Field("error", "option_skip", "string")>>],
      [top |-> "struct", fields |-> <<Field("requestId", "required", "string"),
                                      Field("document", "required", "value")>>],
      [top |-> "struct", fields |-> <<Field("requestId", "required", "string"),
                                      Field("success", "required", "bool"),
                                      Field("error", "option_skip", "string")>>],
      [top |-> "struct", fields |-> <<Field("eventType", "required", "event"),
                                      Field("docId", "required", "string"),
                                      Field("metadata", "option_skip", "object"),
                                      Field("userId", "required", "string")>>],
      [top |-> "struct", fields |-> <<Field("docId", "required", "string")>>],
      [top |-> "struct", fields |-> <<Field("requestId", "required", "string"),
                                      Field("docId", "required", "string"),
                                      Field("shares", "required", "array")>>],
      [top |-> "struct", fields |-> <<Field("requestId", "required", "string"),
                                      Field("docId", "required", "string"),
                                      Field("newOwnerId", "required", "string"),
                                      Field("newOwnerName", "required", "string")>>],
      [top |-> "struct", fields |-> <<Field("requestId", "option", "string"),
                                      Field("error", "required", "string")>>] }

\* The JSON values a T serialises to; serde_json::Value is any of them.
JsonValues(of) ==
    CASE of = "string" -> { JsonValue("string", "a") }
      [] of = "bool" -> { JsonValue("bool", "true"), JsonValue("bool", "false") }
      [] of = "u64" -> { JsonValue("number", "86400000") }
      [] of = "event" -> { JsonValue("string", e) : e \in {"created", "updated", "deleted"} }
      [] of = "object" -> { JsonValue("object", "{\"id\":\"d1\"}") }
      [] of = "array" -> { JsonValue("array", "[]"), JsonValue("array", "[{\"id\":\"d1\"}]") }
      [] of = "value" -> { JsonNull, JsonValue("object", "{\"id\":\"d1\"}"),
                           JsonValue("string", "a") }

\* Whether a JSON value deserialises as a T.
Deserializes(of, value) ==
    CASE of = "string" -> value.kind = "string"
      [] of = "bool" -> value.kind = "bool"
      [] of = "u64" -> value.kind = "number"
      [] of = "event" -> value.kind = "string" /\ value.text \in {"created", "updated", "deleted"}
      [] of = "object" -> value.kind = "object"
      [] of = "array" -> value.kind = "array"
      [] of = "value" -> TRUE

\* The value of a field: `is_some` is false for the None of an Option.
FieldNone == [is_some |-> FALSE, value |-> JsonNull]
FieldSome(value) == [is_some |-> TRUE, value |-> value]

FieldValues(field) ==
    { FieldSome(v) : v \in JsonValues(field.of) }
    \cup (IF field.kind = "required" THEN {} ELSE { FieldNone })

\* The payloads of a type: one value per field.
RECURSIVE PayloadValues(_)
PayloadValues(fields) ==
    IF fields = <<>> THEN { <<>> }
    ELSE { <<v>> \o rest : v \in FieldValues(Head(fields)), rest \in PayloadValues(Tail(fields)) }

\* serde_json::to_vec of the fields from the i-th on: a None is left out under
\* skip_serializing_if and written as null otherwise.
RECURSIVE Members(_, _, _)
Members(fields, payload, i) ==
    IF i > Len(fields) THEN <<>>
    ELSE (IF ~payload[i].is_some
          THEN (IF fields[i].kind = "option_skip" THEN <<>>
                ELSE <<Member(fields[i].key, JsonNull)>>)
          ELSE <<Member(fields[i].key, payload[i].value)>>)
         \o Members(fields, payload, i + 1)

to_vec(type, payload) ==
    IF type.top = "string" THEN <<Member("", payload[1].value)>>
    ELSE <<OpenBrace>> \o Members(type.fields, payload, 1) \o <<CloseBrace>>

\* The member of the text with the given key, if any.
Lookup(members, key) ==
    IF \E i \in DOMAIN members : members[i].key = key
    THEN Some(members[CHOOSE i \in DOMAIN members : members[i].key = key].value)
    ELSE None

\* Deserialisation of one field: Ok(field value) or Err.  An Option takes a
\* null and an absent key as None; a T that is no Option needs its key.
FromMember(field, found) ==
    IF ~IsSome(found)
    THEN (IF field.kind = "required" THEN [ok |-> FALSE, value |-> FieldNone]
          ELSE [ok |-> TRUE, value |-> FieldNone])
    ELSE IF field.kind # "required" /\ Unwrap(found).kind = "null"
         THEN [ok |-> TRUE, value |-> FieldNone]
         ELSE IF Deserializes(field.of, Unwrap(found))
              THEN [ok |-> TRUE, value |-> FieldSome(Unwrap(found))]
              ELSE [ok |-> FALSE, value |-> FieldNone]

\* serde_json::from_slice: Ok(payload) or Err.
from_slice(type, text) ==
    IF type.top = "string"
    THEN (IF Len(text) = 1 /\ text[1].key = "" /\ text[1].value.kind = "string"
          THEN [ok |-> TRUE, err |-> "", payload |-> <<FieldSome(text[1].value)>>]
          ELSE [ok |-> FALSE, err |-> "Failed to deserialize message", payload |-> <<>>])
    ELSE IF Len(text) < 2 \/ text[1] # OpenBrace \/ text[Len(text)] # CloseBrace
         THEN [ok |-> FALSE, err |-> "Failed to deserialize message", payload |-> <<>>]
         ELSE LET members == SubSeq(text, 2, Len(text) - 1)
                  fields == [i \in DOMAIN type.fields |->
                                FromMember(type.fields[i], Lookup(members, type.fields[i].key))]
              IN  IF \A i \in DOMAIN fields : fields[i].ok
                  THEN [ok |-> TRUE, err |-> "",
                        payload |-> [i \in DOMAIN fields |-> fields[i].value]]
                  ELSE [ok |-> FALSE, err |-> "Failed to deserialize message", payload |-> <<>>]

\* encode_message: the tag, then the JSON text.
encode_message(msg_type, type, payload) == <<msg_type>> \o to_vec(type, payload)

\* decode_message_type: the first byte, None on an empty frame.
decode_message_type(data) == IF data = <<>> THEN None ELSE Some(data[1])

\* decode_payload: Err on a frame shorter than two bytes, otherwise the
\* JSON text after the first byte is deserialised.
decode_payload(type, data) ==
    IF Len(data) < 2
    THEN [ok |-> FALSE, err |-> "Message too short", payload |-> <<>>]
    ELSE from_slice(type, Tail(data))

\* The type tags of the protocol.
MessageTypes == MESSAGE_SYNC .. MESSAGE_DOC_TRANSFER

(***************************************************************************)
(* The codec applied to a tag and a payload drawn at the start, and to the *)
(* frames too short to hold a payload.                                     *)
(***************************************************************************)
CodecInit ==
    /\ ServerInit
    /\ DiskInit(<<>>)
    /\ CallInit
    /\ permission_call = None
    /\ user_store = LoadedStore
    /\ web_socket_server = NewServer
    /\ command_result = None
    /\ token_call = None
    /\ \E msg_type \in MessageTypes : \E type \in PayloadTypes :
          \/ \E payload \in PayloadValues(type.fields) :
                codec_call = [msg_type |-> msg_type, type |-> type, payload |-> Some(payload),
                              data |-> None, decoded_type |-> None, decoded |-> None]
          \/ \E data \in { <<>>, <<msg_type>> } :
                codec_call = [msg_type |-> msg_type, type |-> type, payload |-> None,
                              data |-> Some(data), decoded_type |-> None, decoded |-> None]

CodecFrame ==
    UNCHANGED <<server_vars, disk_vars, call_vars, permission_call, user_store,
                web_socket_server, command_result, token_call>>

EncodeMessage ==
    /\ IsSome(codec_call.payload)
    /\ codec_call.data = None
    /\ codec_call' = [codec_call EXCEPT !.data =
           Some(encode_message(codec_call.msg_type, codec_call.type,
                               Unwrap(codec_call.payload)))]
    /\ CodecFrame

DecodeMessageType ==
    /\ IsSome(codec_call.data)
    /\ codec_call.decoded_type = None
    /\ codec_call' = [codec_call EXCEPT !.decoded_type =
           Some(decode_message_type(Unwrap(codec_call.data)))]
    /\ CodecFrame

DecodePayload ==
    /\ IsSome(codec_call.data)
    /\ codec_call.decoded = None
    /\ codec_call' = [codec_call EXCEPT !.decoded =
           Some(decode_payload(codec_call.type, Unwrap(codec_call.data)))]
    /\ CodecFrame

CodecNext ==
    \/ EncodeMessage
    \/ DecodeMessageType
    \/ DecodePayload

CodecSpec == CodecInit /\ [][CodecNext]_vars

(***************************************************************************)
(* The host's server commands: set_server_config, start_server and         *)
(* stop_server each hold the lock on the server for the whole call, so a   *)
(* call is one step; a serving task ends at any time.                      *)
(***************************************************************************)
ServerFrame ==
    UNCHANGED <<server_vars, disk_vars, call_vars, permission_call, user_store, token_call,
                codec_call>>

SetConfigCall(config) ==
    /\ web_socket_server' = set_config(web_socket_server, config).server
    /\ command_result' = [op |-> "set_config", ok |-> set_config(web_socket_server, config).ok,
                          err |-> set_config(web_socket_server, config).err]
    /\ ServerFrame

StartCall(port, actual_port) ==
    /\ web_socket_server.old_tasks < MaxServeTasks
    /\ web_socket_server' = start(web_socket_server, port, actual_port).server
    /\ command_result' = [op |-> "start", ok |-> start(web_socket_server, port, actual_port).ok,
                          err |-> start(web_socket_server, port, actual_port).err]
    /\ ServerFrame

SetAppDataDirCall ==
    /\ web_socket_server' = set_app_data_dir(web_socket_server, "app_data_dir")
    /\ command_result' = [op |-> "set_app_data_dir", ok |-> TRUE, err |-> ""]
    /\ ServerFrame

ListTeamDocumentsCall ==
    /\ command_result' = [op |-> "list_team_documents",
                          ok |-> list_team_documents(web_socket_server).ok,
                          err |-> list_team_documents(web_socket_server).err]
    /\ UNCHANGED web_socket_server
    /\ ServerFrame

StopCall ==
    /\ web_socket_server' = stop(web_socket_server)
    /\ command_result' = [op |-> "stop", ok |-> TRUE, err |-> ""]
    /\ ServerFrame

ServeTaskEnd ==
    /\ web_socket_server.serve_task
    /\ web_socket_server' = serve_task_end(web_socket_server)
    /\ UNCHANGED command_result
    /\ ServerFrame

OldTaskEnd ==
    /\ web_socket_server.old_tasks > 0
    /\ web_socket_server' = old_task_end(web_socket_server)
    /\ UNCHANGED command_result
    /\ ServerFrame

ServerNext ==
    \/ \E config \in Configs : SetConfigCall(config)
    \/ \E port \in Ports : \E actual_port \in ActualPorts(port) : StartCall(port, actual_port)
    \/ StopCall
    \/ ServeTaskEnd
    \/ OldTaskEnd
    \/ SetAppDataDirCall
    \/ ListTeamDocumentsCall

ServerSpec == UserInit /\ [][ServerNext]_vars

(***************************************************************************)
(* DOC_SAVE frames whose body has no usable id: the id is missing or is no *)
(* string (as_str gives None for both), or it is the empty string.         *)
(***************************************************************************)
InvalidBodies == { Document(None, None, None), Document(Some(""), None, None) }

InvalidSaveFrames == { [Frame(MESSAGE_DOC_SAVE) EXCEPT !.document = Some(b)] : b \in InvalidBodies }

DocSaveInvalid ==
    \E c \in ConnIds : \E f \in InvalidSaveFrames :
        /\ Reads(c)
        /\ handle_message(c, f)

SaveNext ==
    \/ Connect
    \/ Close
    \/ Auth
    \/ DocSave
    \/ DocSaveInvalid
    \/ SendToClient
    \/ Drain

SaveSpec == Init /\ [][SaveNext]_vars

(***************************************************************************)
(* Sessions that authenticate while the clock moves on: every frame a      *)
(* session sends is handled, no host command runs.                         *)
(***************************************************************************)
AuthNext ==
    \/ Connect
    \/ Close
    \/ Auth
    \/ AuthLogin
    \/ Sync
    \/ Awareness
    \/ DocList
    \/ DocGet
    \/ DocSave
    \/ DocDelete
    \/ JoinDoc
    \/ OtherFrame
    \/ SendToClient
    \/ Drain
    \/ Tick

AuthSpec == Init /\ [][AuthNext]_vars

(***************************************************************************)
(* Properties.                                                             *)
(***************************************************************************)
\* Connection c handles frame f in this step.
Handles(c, f) ==
    /\ c \in DOMAIN clients
    /\ Reads(c)
    /\ handle_message(c, f)

\* The frames of every type but AUTH and AUTH_LOGIN.
NonAuthFrames(c) ==
    SyncFrames(c) \cup AwarenessFrames(c) \cup DocListFrames \cup DocGetFrames
    \cup DocSaveFrames \cup DocDeleteFrames \cup JoinDocFrames \cup OtherFrames

\* The last envelope this step put into the receiver of connection r, if any.
Received(r) ==
    IF /\ r \in DOMAIN broadcast_rx
       /\ r \in DOMAIN broadcast_rx'
       /\ Len(broadcast_rx'[r].queue) = Len(broadcast_rx[r].queue) + 1
    THEN Some(broadcast_rx'[r].queue[Len(broadcast_rx'[r].queue)])
    ELSE None

\* C1: a frame of a type other than AUTH or AUTH_LOGIN that arrives on an
\* unauthenticated session is dropped: no session field changes, no document
\* changes, nothing is forwarded, and the sender is answered with an
\* ErrorResponse whose error is NOT_AUTHENTICATED.
C1_UnauthenticatedFrameDropped ==
    [][\A c \in ConnIds : \A f \in NonAuthFrames(c) :
        (Handles(c, f) /\ ~clients[c].authenticated)
            => /\ clients' = clients
               /\ index' = index
               /\ files' = files
               /\ broadcast_rx' = broadcast_rx
               /\ dispatcher'[c] = Some(ErrorResponse("NOT_AUTHENTICATED"))]_vars

\* C2: a SYNC frame is forwarded only if the sender is in a document and has
\* at least Editor on it, an AWARENESS frame only if the sender is in a
\* document and has at least Viewer on it; neither is ever answered.
C2_ForwardRequiresPermission ==
    [][\A c \in ConnIds : \A f \in SyncFrames(c) \cup AwarenessFrames(c) :
        Handles(c, f)
            => /\ dispatcher' = dispatcher
               /\ broadcast_rx' # broadcast_rx
                    => /\ IsSome(clients[c].current_doc_id)
                       /\ check_permission(index, Unwrap(clients[c].current_doc_id),
                              clients[c].user_id, clients[c].role,
                              IF f.tag = MESSAGE_SYNC THEN Editor ELSE Viewer) = "ok"]_vars

\* C3: when a session's broadcast task takes a document-scoped envelope (a
\* forwarded SYNC or AWARENESS frame sent from document d) and passes it on,
\* that session's current document is d at that moment; a session in another
\* document or in none never gets it.
C3_DocScopedDelivery ==
    [][\A c \in ConnIds :
        (/\ c \in DOMAIN clients
         /\ BroadcastRecv(c)
         /\ ~broadcast_rx[c].lagged
         /\ IsSome(Head(broadcast_rx[c].queue).doc_id)
         /\ broadcast_task'[c].pc = "send")
            => clients[c].current_doc_id = Head(broadcast_rx[c].queue).doc_id]_vars

\* A session holds, in its outbound queue, a SYNC frame another session sent.
C3_Witness ==
    \E c \in DOMAIN clients : \E i \in 1..Len(outbound[c]) :
        /\ outbound[c][i].tag = MESSAGE_SYNC
        /\ outbound[c][i].sender # c
        /\ IsSome(clients[c].current_doc_id)

\* C4: no SYNC or AWARENESS frame a session sent is ever in, or on its way
\* into, that session's own outbound queue.
C4_SenderExclusion ==
    \A c \in DOMAIN clients :
        /\ \A i \in 1..Len(outbound[c]) :
              outbound[c][i].tag \in {MESSAGE_SYNC, MESSAGE_AWARENESS}
                  => outbound[c][i].sender # c
        /\ IsSome(broadcast_task[c].data)
              => (Unwrap(broadcast_task[c].data).tag \in {MESSAGE_SYNC, MESSAGE_AWARENESS}
                     => Unwrap(broadcast_task[c].data).sender # c)

\* A peer holds the SYNC frame of session c while the broadcast task of c has
\* gone through every envelope sent to it, its own frame included.
C4_Witness ==
    \E c \in DOMAIN clients : \E p \in DOMAIN clients \ {c} :
        /\ \E i \in 1..Len(outbound[p]) :
              outbound[p][i].tag = MESSAGE_SYNC /\ outbound[p][i].sender = c
        /\ broadcast_rx[c].queue = <<>>
        /\ ~broadcast_rx[c].lagged
        /\ broadcast_task[c].pc = "recv"
        /\ IsSome(clients[c].current_doc_id)

C6_DocGetRequiresViewer ==
    [][\A c \in ConnIds : \A f \in DocGetFrames :
        Handles(c, f)
            => LET perm == check_read_permission(index, f.doc_id, clients[c].user_id, clients[c].role)
                   resp == Unwrap(dispatcher'[c])
               IN  /\ IsSome(resp.document) => perm = "ok"
                   /\ perm = "AccessDenied"
                        => resp.error = Some(to_error_string(perm, Viewer))]_vars

\* C7: DOC_DELETE removes a document only for a requester with Owner on it;
\* below Owner the answer is ERR_DELETE_FORBIDDEN, index and files stay as
\* they are and no DOC_EVENT is emitted.
C7_DocDeleteRequiresOwner ==
    [][\A c \in ConnIds : \A f \in DocDeleteFrames :
        Handles(c, f)
            => LET perm == check_delete_permission(index, f.doc_id, clients[c].user_id, clients[c].role)
                   resp == Unwrap(dispatcher'[c])
               IN  /\ perm # "ok"
                        => /\ index' = index
                           /\ files' = files
                           /\ broadcast_rx' = broadcast_rx
                   /\ perm = "AccessDenied"
                        => resp.error = Some(to_error_string(perm, Owner))]_vars

\* C8: DOC_SAVE of an id the index holds is applied only for a requester with
\* at least Editor on that document; DOC_SAVE of a new id is applied for any
\* authenticated session; a refused save changes neither files nor index and
\* emits no DOC_EVENT.
C8_DocSaveRequiresEditor ==
    [][\A c \in ConnIds : \A f \in DocSaveFrames :
        (Handles(c, f) /\ IsSome(Unwrap(f.document).id))
            => LET doc_id == Unwrap(Unwrap(f.document).id)
                   perm == check_write_permission(index, doc_id, clients[c].user_id, clients[c].role)
               IN  /\ (doc_id \in DOMAIN index /\ perm # "ok")
                        => /\ index' = index
                           /\ files' = files
                           /\ broadcast_rx' = broadcast_rx
                   /\ (doc_id \notin DOMAIN index /\ clients[c].authenticated)
                        => (doc_id \in DOMAIN index' /\ files'[doc_id] = Unwrap(f.document))]_vars

\* C9: JOIN_DOC sets the session's current document only if the session's
\* user has at least Viewer on it; otherwise the current document stays.
C9_JoinRequiresViewer ==
    [][\A c \in ConnIds : \A f \in JoinDocFrames :
        (/\ Handles(c, f)
         /\ check_read_permission(index, f.doc_id, clients[c].user_id, clients[c].role) # "ok")
            => clients'[c].current_doc_id = clients[c].current_doc_id]_vars

\* C10: the DOC_EVENT of a successful save, over the wire or by the host, is
\* "created" if and only if the index did not hold the document id before the
\* save, and "updated" if and only if it did.
C10_EventTypeByPriorIndex ==
    [][/\ \A c \in ConnIds : \A f \in DocSaveFrames : \A r \in ConnIds :
            (Handles(c, f) /\ IsSome(Unwrap(f.document).id) /\ IsSome(Received(r)))
                => Unwrap(Received(r)).data.event_type =
                       Some(IF Unwrap(Unwrap(f.document).id) \in DOMAIN index
                            THEN "updated" ELSE "created")
       /\ \A b \in Bodies : \A r \in ConnIds :
            (save_team_document(b) /\ IsSome(b.id) /\ IsSome(Received(r)))
                => Unwrap(Received(r)).data.event_type =
                       Some(IF Unwrap(b.id) \in DOMAIN index
                            THEN "updated" ELSE "created")]_vars

\* The forwarded frames and events on their way to connection c, oldest
\* first: its outbound queue, what its broadcast task holds, and what its
\* receiver has not read.
RECURSIVE Payloads(_)
Payloads(envelopes) ==
    IF envelopes = <<>> THEN <<>>
    ELSE <<Head(envelopes).data>> \o Payloads(Tail(envelopes))

Pipeline(c) ==
    outbound[c]
    \o (IF IsSome(broadcast_task[c].data) THEN <<Unwrap(broadcast_task[c].data)>> ELSE <<>>)
    \o Payloads(broadcast_rx[c].queue)

\* C11: the response of a successful DOC_SAVE enters the originator's outbound
\* queue before the DOC_EVENT of that save: while the response still waits
\* for send_to_client, the event has not yet left the originator's broadcast
\* receiver and broadcast task.
C11_ResponseBeforeEvent ==
    \A c \in DOMAIN clients :
        (/\ dispatcher[c] = Some(DocSaveResponse(TRUE, None))
         /\ clients[c].authenticated
         /\ ~broadcast_rx[c].lagged
         /\ broadcast_task[c].pc # "done")
            => \/ /\ IsSome(broadcast_task[c].data)
                  /\ Unwrap(broadcast_task[c].data).tag = MESSAGE_DOC_EVENT
                  /\ Unwrap(broadcast_task[c].data).user_id = clients[c].user_id
               \/ \E i \in 1..Len(broadcast_rx[c].queue) :
                     /\ broadcast_rx[c].queue[i].data.tag = MESSAGE_DOC_EVENT
                     /\ broadcast_rx[c].queue[i].data.user_id = clients[c].user_id

\* C12: the SYNC and AWARENESS frames of one sender reach every peer in the
\* order the sender sent them: on the way to a connection (receiver,
\* broadcast task, outbound queue) an earlier frame of a sender is always
\* ahead of a later frame of the same sender.
C12_PerProducerFifo ==
    \A c \in DOMAIN clients :
        \A i, j \in 1..Len(Pipeline(c)) :
            (/\ i < j
             /\ Pipeline(c)[i].tag \in {MESSAGE_SYNC, MESSAGE_AWARENESS}
             /\ Pipeline(c)[j].tag \in {MESSAGE_SYNC, MESSAGE_AWARENESS}
             /\ Pipeline(c)[i].sender = Pipeline(c)[j].sender)
                => Pipeline(c)[i].seq < Pipeline(c)[j].seq

\* The outbound queue of a session holds two frames of one peer, the earlier
\* one first.
C12_Witness ==
    \E c \in DOMAIN clients :
        /\ Len(outbound[c]) >= 2
        /\ outbound[c][1].tag \in {MESSAGE_SYNC, MESSAGE_AWARENESS}
        /\ outbound[c][2].tag \in {MESSAGE_SYNC, MESSAGE_AWARENESS}
        /\ outbound[c][1].sender = outbound[c][2].sender
        /\ outbound[c][1].sender # c
        /\ outbound[c][1].seq < outbound[c][2].seq

\* C13: a message for a session whose outbound queue is full is dropped, so
\* neither a dispatcher nor a broadcast task is ever left holding a message
\* for a full queue, waiting for room in it.
C13_FullQueueNeverBlocks ==
    \A c \in DOMAIN clients :
        Len(outbound[c]) >= OutboundCapacity
            => /\ ~IsSome(dispatcher[c])
               /\ broadcast_task[c].pc # "send"

\* C14: in every state of the store, whatever calls are under way, get
\* succeeds for every id of the index and yields a body with that id.
C14_ListedDocumentsReadable ==
    \A d \in DOMAIN index :
        /\ get_document(index, files, d).ok
        /\ Unwrap(get_document(index, files, d).doc).id = Some(d)

\* C15: as long as a document stays in the index, its created_at stays what
\* the first save made it, whatever the later bodies carry.
C15_CreatedAtPreserved ==
    [][\A d \in DOMAIN index \cap DOMAIN index' :
          index'[d].created_at = index[d].created_at]_vars

\* C16: a delete of an id whose last delete returned true, with no save of
\* that id during or after it, returns false and leaves the index, the body
\* files and index.json as they are.
C16_DeleteIdempotent ==
    [][\A t \in StoreThreads : \A d \in DocIds :
          (Calls(t) /\ CallDelete(t, d) /\ d \in deleted)
              => /\ store_task'[t].result = "false"
                 /\ index' = index
                 /\ files' = files
                 /\ index_json' = index_json]_vars

\* A thread's delete of an id that a delete had removed has returned false.
C16_Witness ==
    \E t \in StoreThreads :
        /\ store_task[t].pc = "idle"
        /\ store_task[t].op = "delete"
        /\ store_task[t].prior
        /\ store_task[t].result = "false"

\* C17: a store built on the data directory when every call has returned
\* lists the same metadata and returns the same bodies as the store that
\* made the calls.
C17_RestartDurability ==
    [][Restart
          => /\ list_documents(index') = list_documents(index)
             /\ \A d \in DocIds :
                   get_document(index', files', d) = get_document(index, files, d)]_vars

\* A second store lists a document that has an owner and no lock, after a
\* delete has gone through the first.
C17_Witness ==
    /\ generation > 1
    /\ deleted # {}
    /\ \E d \in DOMAIN index :
          /\ IsSome(index[d].owner_id)
          /\ ~IsSome(index[d].locked_by)
          /\ get_document(index, files, d).ok

\* C18: the user a metadata record names as owner gets Owner, whatever the
\* role and whatever the share list says about that user.
C18_OwnerIsOwner ==
    (/\ permission_call # None
     /\ IsSome(permission_call.result)
     /\ permission_call.metadata.owner_id = Some(permission_call.user_id))
        => Unwrap(permission_call.result) = Owner

\* The evaluator has answered for an owner without a role whom the share
\* list names as a viewer.
C18_Witness ==
    /\ permission_call # None
    /\ IsSome(permission_call.result)
    /\ permission_call.metadata.owner_id = Some(permission_call.user_id)
    /\ permission_call.user_role = None
    /\ permission_call.metadata.shared_with
          = Some(<<Share(permission_call.user_id, "view")>>)

C20_LockFieldsTogether ==
    \A d \in DOMAIN index :
        /\ IsSome(index[d].locked_by) <=> IsSome(index[d].locked_by_name)
        /\ IsSome(index[d].locked_by) <=> IsSome(index[d].locked_at)

\* The share entries of a metadata record.
SharedWith(m) == IF IsSome(m.shared_with) THEN Unwrap(m.shared_with) ELSE <<>>

\* C21: no index entry names its own owner_id as the userId of one of its
\* shared_with entries.
C21_OwnerNotShared ==
    \A d \in DOMAIN index :
        IsSome(index[d].owner_id)
            => \A i \in 1..Len(SharedWith(index[d])) :
                  SharedWith(index[d])[i].userId # Unwrap(index[d].owner_id)

\* C22: the metadata a transfer_ownership call puts in the index has the new
\* owner as owner_id, no share entry for the new owner, and a share entry
\* for the previous owner whose permission is edit.
C22_TransferResult ==
    [][\A t \in StoreThreads :
          (/\ store_task[t].op = "transfer_ownership"
           /\ store_task[t].pc = "insert"
           /\ store_task'[t].pc = "save_index")
              => LET arg == Unwrap(store_task[t].arg)
                     m == index'[store_task[t].doc_id]
                 IN  /\ m.owner_id = Some(arg.new_owner_id)
                     /\ \A i \in 1..Len(SharedWith(m)) :
                           SharedWith(m)[i].userId # arg.new_owner_id
                     /\ \E i \in 1..Len(SharedWith(m)) :
                           /\ SharedWith(m)[i].userId = arg.previous_owner_id
                           /\ SharedWith(m)[i].permission = "edit"]_vars

\* No two stored users have the same username.
UniqueUsernames ==
    \A i, j \in DOMAIN user_store.users :
        i # j => user_store.users[i].username # user_store.users[j].username

\* C23: add_user of a user whose username a stored user has returns Err and
\* leaves the map and the users file as they were; no two stored users ever
\* have the same username.
C23_DuplicateUsername ==
    /\ []UniqueUsernames
    /\ [][\A user \in NewUsers :
            (/\ AddUserCall(user)
             /\ \E i \in DOMAIN user_store.users :
                   user_store.users[i].username = user.username)
                => /\ user_store' = user_store
                   /\ ~command_result'.ok]_vars

C23_Witness ==
    /\ command_result # None
    /\ command_result.op = "add_user"
    /\ ~command_result.ok
    /\ \E i, j \in DOMAIN user_store.users :
          /\ user_store.users[i].username = "alice"
          /\ user_store.users[j].username = "Alice"

BadToken(f) ==
    \/ f.malformed
    \/ ~Unwrap(f.token).wellformed
    \/ Unwrap(f.token).signature.key # jwt_secret
    \/ now_secs > Unwrap(f.token).claims.exp

\* C25: an AUTH frame with a malformed, wrongly signed or expired token
\* leaves every session as it was and is answered with AUTH_RESPONSE,
\* success false, error "Invalid or expired token".
C25_BadTokenRefused ==
    [][\A c \in ConnIds : \A f \in AuthFrames :
          (Handles(c, f) /\ BadToken(f))
              => /\ clients' = clients
                 /\ dispatcher'[c] = Some(AuthResponse(FALSE, None, None, None, None,
                                                      Some("Invalid or expired token")))]_vars

\* AUTH_LOGIN frames naming a user the store does not hold, and frames
\* naming a stored user with a password that is not theirs.
UnknownUserFrames ==
    { f \in AuthLoginFrames : ~f.malformed /\ ~IsSome(get_user_by_username(f.username)) }

WrongPasswordFrames ==
    { f \in AuthLoginFrames :
        /\ ~f.malformed
        /\ \E u \in Users : u.username = f.username /\ u.password # f.password }

C28_CodecRoundTrip ==
    /\ (/\ codec_call # None
        /\ IsSome(codec_call.payload)
        /\ IsSome(codec_call.decoded_type))
           => Unwrap(codec_call.decoded_type) = Some(codec_call.msg_type)
    /\ (/\ codec_call # None
        /\ IsSome(codec_call.payload)
        /\ IsSome(codec_call.decoded))
           => /\ Unwrap(codec_call.decoded).ok
              /\ Unwrap(codec_call.decoded).payload = Unwrap(codec_call.payload)
    /\ (/\ codec_call # None
        /\ IsSome(codec_call.data)
        /\ Len(Unwrap(codec_call.data)) < 2
        /\ IsSome(codec_call.decoded))
           => ~Unwrap(codec_call.decoded).ok

\* C29: a DOC_SHARE or DOC_TRANSFER frame from an authenticated session whose
\* user has Owner on the document is answered with a success response and
\* announced to the sessions by a DOC_EVENT.
C29_ShareTransferHandled ==
    [][\A c \in ConnIds : \A f \in OtherFrames :
          (/\ Handles(c, f)
           /\ clients[c].authenticated
           /\ check_permission(index, f.doc_id, clients[c].user_id, clients[c].role, Owner) = "ok")
              => /\ IsSome(dispatcher'[c])
                 /\ Unwrap(dispatcher'[c]).success
                 /\ broadcast_rx' # broadcast_rx]_vars

\* C30: a session whose authenticated flag is set keeps it set for as long
\* as it is connected, whatever frame any session sends and however far the
\* clock moves past the exp of the token it authenticated with.
C30_AuthenticatedUntilDisconnect ==
    [][\A c \in DOMAIN clients :
          (clients[c].authenticated /\ c \in DOMAIN clients')
              => clients'[c].authenticated]_vars

C30_Witness ==
    \E c \in DOMAIN clients :
        /\ clients[c].authenticated
        /\ clients[c].user_id = Some("carol")
        /\ now_secs > 120
        /\ dispatcher[c] = Some(AuthResponse(FALSE, None, None, None, None,
                                             Some("Token expired")))

\* C31: on a stopped server with an app data directory, start(0) returns Ok
\* and leaves the running flag set and the status port at the port bound,
\* which is not 0; when stop returns, the flag is clear, the status port is
\* 0 and the status address is empty; stop on a server that is not running
\* returns Ok and changes nothing.
C31_StartStopLifecycle ==
    [][/\ \A actual_port \in ActualPorts(0) :
            (/\ StartCall(0, actual_port)
             /\ ~is_running(web_socket_server)
             /\ IsSome(web_socket_server.app_data_dir))
                => /\ command_result'.ok
                   /\ is_running(web_socket_server')
                   /\ status(web_socket_server').port = Unwrap(actual_port)
                   /\ status(web_socket_server').port # 0
       /\ StopCall
            => /\ command_result'.ok
               /\ ~is_running(web_socket_server')
               /\ status(web_socket_server').port = 0
               /\ status(web_socket_server').address = None
       /\ (StopCall /\ ~is_running(web_socket_server))
            => web_socket_server' = web_socket_server]_vars

C31_Witness ==
    /\ command_result # None
    /\ command_result.op = "stop"
    /\ web_socket_server.config.port = 0
    /\ web_socket_server.old_tasks > 0
    /\ ~is_running(web_socket_server)
    /\ status(web_socket_server).port = 0

\* C37: once start has returned Ok, the running flag stays set and the status
\* port stays the port bound until stop is called or the serving task of
\* that start ends: in particular the serving task of an earlier start and
\* stop does not clear them.
C37_RunningUntilStop ==
    [][(is_running(web_socket_server) /\ ~StopCall /\ ~ServeTaskEnd)
          => /\ is_running(web_socket_server')
             /\ status(web_socket_server').port = status(web_socket_server).port]_vars

\* C38: whenever the running flag is clear between calls, get_doc_store
\* returns None and the host's direct document commands answer "Server not
\* running".
C38_NoStoreWhenStopped ==
    ~is_running(web_socket_server)
        => /\ get_doc_store(web_socket_server) = None
           /\ list_team_documents(web_socket_server).err = "Server not running"

\* C32: a DOC_SAVE whose body has a missing, non-string or empty id changes
\* neither index nor body files nor the persisted index, emits no DOC_EVENT
\* and is answered with success false.
C32_InvalidBodyRefused ==
    [][\A c \in ConnIds : \A f \in InvalidSaveFrames :
          (Handles(c, f) /\ IsSome(dispatcher'[c]))
              => /\ index' = index
                 /\ files' = files
                 /\ index_json' = index_json
                 /\ broadcast_rx' = broadcast_rx
                 /\ ~Unwrap(dispatcher'[c]).success]_vars

\* C33: delete_document returns false only when neither the body file nor an
\* index entry of the id exists.
C33_DeleteFalseOnlyWhenAbsent ==
    [][\A t \in StoreThreads : \A d \in DocIds :
          (Calls(t) /\ CallDelete(t, d) /\ store_task'[t].result = "false")
              => /\ d \notin DOMAIN index
                 /\ d \notin DOMAIN files]_vars

\* C34: mutating calls on one document exclude each other, so that a call
\* writes back the body as the store holds it with its own change alone:
\* the write of an update_document_shares leaves the lock fields of the body
\* file as they are, and the write of a set_lock leaves its share list.
C34_NoLostUpdate ==
    [][\A t \in StoreThreads :
          (StoreWrite(t) /\ store_task[t].doc_id \in DOMAIN files)
              => LET d == store_task[t].doc_id
                 IN  /\ store_task[t].op = "update_document_shares"
                          => /\ files'[d].lockedBy = files[d].lockedBy
                             /\ files'[d].lockedByName = files[d].lockedByName
                             /\ files'[d].lockedAt = files[d].lockedAt
                     /\ store_task[t].op = "set_lock"
                          => files'[d].sharedWith = files[d].sharedWith]_vars


\* The share list of the call as a sequence, empty when the record has none.
CallShares ==
    IF IsSome(permission_call.metadata.shared_with)
    THEN Unwrap(permission_call.metadata.shared_with) ELSE <<>>

\* The positions of the share entries that name the user of the call.
CallEntries == { i \in DOMAIN CallShares : CallShares[i].userId = permission_call.user_id }

\* The permission string of the first share entry naming the user.
CallEntry == CallShares[CHOOSE i \in CallEntries : \A j \in CallEntries : i <= j].permission

\* The evaluator has answered for a user who is neither owner nor admin.
CallForSharee ==
    /\ permission_call # None
    /\ IsSome(permission_call.result)
    /\ permission_call.metadata.owner_id # Some(permission_call.user_id)
    /\ permission_call.user_role # Some("admin")

\* C35: for a user who is neither the owner nor an admin the permission is
\* the mapping of the user's share entry, view to Viewer, edit or editor to
\* Editor, owner to Owner and any other string to None, and it is None when
\* no entry names the user; the role user adds nothing.
C35_ShareMapping ==
    CallForSharee =>
        Unwrap(permission_call.result) =
            IF CallEntries = {} THEN PermissionNone
            ELSE CASE CallEntry = "view" -> Viewer
                   [] CallEntry \in {"edit", "editor"} -> Editor
                   [] CallEntry = "owner" -> Owner
                   [] OTHER -> PermissionNone

\* C35 as the code has it: the string of the user's first share entry is
\* compared without regard to case, and viewer maps to Viewer as view does.
C35_ShareMappingAnyCase ==
    CallForSharee =>
        Unwrap(permission_call.result) =
            IF CallEntries = {} THEN PermissionNone
            ELSE CASE CallEntry \in {"view", "viewer", "View"} -> Viewer
                   [] CallEntry \in {"edit", "editor", "EDIT"} -> Editor
                   [] CallEntry = "owner" -> Owner
                   [] OTHER -> PermissionNone

\* The evaluator has answered Viewer for a user with role user, not the
\* owner, whose share entry is spelled with a capital.
C35_Witness ==
    /\ CallForSharee
    /\ permission_call.user_role = Some("user")
    /\ IsSome(permission_call.metadata.owner_id)
    /\ CallEntries # {}
    /\ CallEntry = "View"
    /\ Unwrap(permission_call.result) = Viewer


\* C36: a session whose broadcast receiver has lagged loses only what it
\* lagged past: while it stays connected, an envelope sent afterwards for the
\* document it is on, by another session, still reaches its receiver.
C36_DeliveredAfterLag ==
    [][\A p \in ConnIds : \A c \in ConnIds \ {p} : \A f \in SyncFrames(p) \cup AwarenessFrames(p) :
        (/\ Handles(p, f)
         /\ c \in DOMAIN clients
         /\ broadcast_rx[c].lagged
         /\ IsSome(clients[p].current_doc_id)
         /\ clients[c].current_doc_id = clients[p].current_doc_id)
            => /\ IsSome(Received(c))
               /\ Unwrap(Received(c)).data = Forwarded(f)]_vars


\* C39: whenever no store call is under way, every id of the index has a
\* body file, and the index entry carries the name, the page count, the
\* owner, lock and share fields of that body, and its modifiedAt when the
\* body has one; also after saves of one id that ran side by side.
C39_IndexProjectsBody ==
    (\A t \in StoreThreads : store_task[t].pc = "idle")
        => \A d \in DOMAIN index :
              /\ d \in DOMAIN files
              /\ index[d].name = files[d].name
              /\ index[d].page_count = files[d].pageOrder
              /\ index[d].owner_id = files[d].ownerId
              /\ index[d].owner_name = files[d].ownerName
              /\ index[d].locked_by = files[d].lockedBy
              /\ index[d].locked_by_name = files[d].lockedByName
              /\ index[d].locked_at = files[d].lockedAt
              /\ index[d].shared_with = files[d].sharedWith
              /\ IsSome(files[d].modifiedAt) => index[d].modified_at = Unwrap(files[d].modifiedAt)


\* C40: an add_user that returns Ok leaves one user more in the store, and
\* every user stored before is still there under its id, unchanged.
C40_AddUserFrame ==
    [][\A user \in NewUsers :
          (AddUserCall(user) /\ command_result'.ok)
              => /\ Cardinality(DOMAIN user_store'.users)
                      = Cardinality(DOMAIN user_store.users) + 1
                 /\ \A i \in DOMAIN user_store.users :
                        /\ i \in DOMAIN user_store'.users
                        /\ user_store'.users[i] = user_store.users[i]]_vars

====
